---- MODULE Spec2Model ----
(***************************************************************************)
(* State-machine model of the bibidi backend request handlers.             *)
(*                                                                         *)
(* Every handler is an async function: each `await db...` is one atomic    *)
(* database statement, and other requests may run between two awaits.      *)
(* A request therefore is a small process: pc[p] is the await it is        *)
(* parked on, rq[p] its input (identity and body), lv[p] its local         *)
(* variables and resp[p] the HTTP answer once it has ended.                *)
(***************************************************************************)
EXTENDS Naturals, Integers, Sequences, FiniteSets, TLC

VARIABLES
    users,                \* table users: [id, email]
    roles,                \* table roles: set of role names (the name stands for the serial id)
    userRoles,            \* table user_roles: <<userId, roleName>>, primary key (userId, roleId)
    recruiters,           \* table recruiters: [id, userId, status]
    recruiterInvitations, \* table recruiter_invitations
    recruiterEvents,      \* table recruiter_events
    providerProfiles,     \* table provider_profiles
    providerDocuments,    \* table provider_documents
    categories,           \* table categories: set of names
    now,                  \* the wall clock read by new Date()
    nextId,               \* source of fresh uuids (randomUUID / defaultRandom)
    jwtSecret,            \* process.env.JWT_SECRET is set
    pc, rq, lv, resp,     \* the requests in flight
    nreq,                 \* number of requests started so far
    acceptedTokens,       \* history: tokens with which a registerRecruiter was answered 201
    acceptCount,          \* history: token -> number of pending->accepted moves
    mw,                   \* one request passing a role middleware
    issued,               \* the tokens login has handed out so far
    objects,              \* the storage adapter's objects: set of storage keys
    handedOut,            \* history: the invitation tokens generated so far
    bookings              \* table bookings: [id, customerId, providerId]

vars == <<users, roles, userRoles, recruiters, recruiterInvitations, recruiterEvents,
          providerProfiles, providerDocuments, categories, now, nextId, jwtSecret,
          pc, rq, lv, resp, nreq, acceptedTokens, acceptCount, mw, issued, objects, handedOut, bookings>>

tables == <<users, roles, userRoles, recruiters, recruiterInvitations, recruiterEvents,
            providerProfiles, providerDocuments, categories>>

-----------------------------------------------------------------------------
(* Bounds of the model *)

NumProcs == 2        \* requests that may be in flight together
MaxRequests == 3     \* requests started in one behaviour
MaxClock == 2        \* ticks of the wall clock
MaxRoleLen == 2      \* length of the role array of an identity in the middleware check
MaxProfileRequests == 2  \* requests started in one behaviour of the profile scenarios

Procs == 1..NumProcs

NoId == 0
NoStr == "none"

\* the first instant of the clock (0 stands for a null timestamp)
Epoch == NoId + 1

-----------------------------------------------------------------------------
(* Values *)

RoleNames == {"customer", "provider", "recruiter", "administrator"}

Emails == {"a@x.com", "A@x.com", "b@x.com"}

\* mutant: the address is used as typed
toLowerCase_AsTyped(e) == e

\* String.prototype.toLowerCase on the e-mail addresses of the model
toLowerCase(e) == IF e = "A@x.com" THEN "a@x.com" ELSE e

\* Array.prototype.includes
RECURSIVE includes(_, _)
includes(arr, x) ==
    IF arr = <<>> THEN FALSE
    ELSE IF Head(arr) = x THEN TRUE ELSE includes(Tail(arr), x)

\* Array.prototype.some(role => userRoles.includes(role))
RECURSIVE someIncluded(_, _)
someIncluded(required, userRoleArr) ==
    IF required = <<>> THEN FALSE
    ELSE IF includes(userRoleArr, Head(required)) THEN TRUE
         ELSE someIncluded(Tail(required), userRoleArr)

\* Array.prototype.every(role => userRoles.includes(role))
RECURSIVE everyIncluded(_, _)
everyIncluded(required, userRoleArr) ==
    IF required = <<>> THEN TRUE
    ELSE IF ~includes(userRoleArr, Head(required)) THEN FALSE
         ELSE everyIncluded(Tail(required), userRoleArr)

\* req.user: absent, or the identity the token carried
NoUser == [auth |-> FALSE, userId |-> NoId, roles |-> <<>>]
Identity(uid, rs) == [auth |-> TRUE, userId |-> uid, roles |-> rs]

\* the payload of jwt.sign
NoToken == [userId |-> NoId, roles |-> <<>>]

-----------------------------------------------------------------------------
(* Requests *)

\* a body field that was not supplied
Undefined == "undefined"

\* a decimal or date input that is absent (undefined), null, a number, a Date or a string
NoValue == [kind |-> "undefined", num |-> NoId, str |-> <<>>]
NullValue == [kind |-> "null", num |-> NoId, str |-> <<>>]
NumberValue(n) == [kind |-> "number", num |-> n, str |-> <<>>]
StringValue(s) == [kind |-> "string", num |-> NoId, str |-> s]
DateValue(t) == [kind |-> "date", num |-> t, str |-> <<>>]

\* ProviderProfileUpdateInput with every field absent
NoUpdates ==
    [description |-> Undefined, status |-> Undefined, pricePerHour |-> NoValue,
     nextAvailability |-> NoValue]

NoRequest ==
    [h |-> NoStr, user |-> NoUser, valid |-> TRUE, email |-> NoStr, token |-> NoId,
     id |-> NoId, status |-> Undefined, description |-> Undefined, recruiterId |-> NoId,
     docs |-> <<>>, category |-> NoStr, bearer |-> NoToken, roleName |-> NoStr,
     passwordOk |-> TRUE, documentId |-> NoId, file |-> FALSE, updates |-> NoUpdates,
     serviceId |-> NoStr]

\* history: the rows a request has inserted, per table
NoWrites ==
    [users |-> {}, userRoles |-> {}, providerProfiles |-> {}, providerDocuments |-> {},
     recruiterEvents |-> {}, recruiters |-> {}]

NoLocals ==
    [userId |-> NoId, recruiterId |-> NoId, invitationId |-> NoId, profileId |-> NoId,
     onboardedBy |-> NoId, roleName |-> NoStr, erRet |-> NoStr, euRet |-> NoStr,
     createdUser |-> FALSE, insertedProfile |-> FALSE, dbError |-> FALSE,
     late |-> FALSE, hadProfile |-> FALSE, wrote |-> NoWrites, categoryId |-> NoStr,
     storedKey |-> NoId, existingKey |-> NoId, temporaryPassword |-> FALSE]

NoResponse ==
    [status |-> 0, code |-> NoStr, userId |-> NoId, profileId |-> NoId, token |-> NoToken,
     temporaryPassword |-> FALSE]

Idle(p) == pc[p] \in {"idle", "done"}

\* res.status(s).json(formatError(.., code)) / formatSuccess, then return
Answer(p, s, code) ==
    /\ pc' = [pc EXCEPT ![p] = "done"]
    /\ resp' = [resp EXCEPT ![p] = [NoResponse EXCEPT !.status = s, !.code = code]]

AnswerWith(p, r) ==
    /\ pc' = [pc EXCEPT ![p] = "done"]
    /\ resp' = [resp EXCEPT ![p] = r]

Goto(p, label) ==
    /\ pc' = [pc EXCEPT ![p] = label]
    /\ UNCHANGED resp

\* a request arrives: Express calls the handler with req
Arrive(p, r, budget) ==
    /\ Idle(p)
    /\ nreq < budget
    /\ nreq' = nreq + 1
    /\ rq' = [rq EXCEPT ![p] = r]

UserByEmail(e) == {u \in users : u.email = e}
UserIds == {u.id : u \in users}

-----------------------------------------------------------------------------
(* POST /api/auth/register *)

RegisterRequests ==
    {[NoRequest EXCEPT !.h = "register", !.valid = v, !.email = e] :
        v \in BOOLEAN, e \in Emails}

\* validation, then the existence check on the lower-cased e-mail
RegisterStart(p) ==
    \E r \in RegisterRequests :
        /\ Arrive(p, r, MaxRequests)
        /\ lv' = [lv EXCEPT ![p] = NoLocals]
        /\ IF ~r.valid THEN Answer(p, 400, "VALIDATION_ERROR")
           ELSE IF UserByEmail(toLowerCase(r.email)) # {}
                THEN Answer(p, 409, "USER_EXISTS")
                ELSE Goto(p, "reg_insert_user")
        /\ UNCHANGED <<tables, now, nextId, jwtSecret, acceptedTokens, acceptCount, mw, issued, objects, handedOut, bookings>>

\* users.email is unique: the insert throws on a duplicate and the catch answers 500
RegisterInsertUser(p) ==
    /\ pc[p] = "reg_insert_user"
    /\ IF UserByEmail(toLowerCase(rq[p].email)) # {}
       THEN /\ Answer(p, 500, "INTERNAL_ERROR")
            /\ UNCHANGED <<users, nextId, lv>>
       ELSE /\ users' = users \cup {[id |-> nextId, email |-> toLowerCase(rq[p].email)]}
            /\ nextId' = nextId + 1
            /\ lv' = [lv EXCEPT ![p].userId = nextId, ![p].createdUser = TRUE]
            /\ Goto(p, "reg_select_role")
    /\ UNCHANGED <<roles, userRoles, recruiters, recruiterInvitations, recruiterEvents,
                   providerProfiles, providerDocuments, categories>>
    /\ UNCHANGED <<now, jwtSecret, rq, nreq, acceptedTokens, acceptCount, mw, issued, objects, handedOut, bookings>>

\* select the customer role
RegisterSelectRole(p) ==
    /\ pc[p] = "reg_select_role"
    /\ IF "customer" \in roles THEN Goto(p, "reg_assign_role")
                               ELSE Goto(p, "reg_insert_roles")
    /\ UNCHANGED <<tables, now, nextId, jwtSecret, rq, lv, nreq, acceptedTokens,
                   acceptCount, mw, issued, objects, handedOut, bookings>>

\* insert the default roles, onConflictDoNothing
RegisterInsertRoles(p) ==
    /\ pc[p] = "reg_insert_roles"
    /\ roles' = roles \cup {"customer", "provider", "administrator"}
    /\ Goto(p, "reg_reselect_role")
    /\ UNCHANGED <<users, userRoles, recruiters, recruiterInvitations, recruiterEvents,
                   providerProfiles, providerDocuments, categories>>
    /\ UNCHANGED <<now, nextId, jwtSecret, rq, lv, nreq, acceptedTokens, acceptCount, mw, issued, objects, handedOut, bookings>>

RegisterReselectRole(p) ==
    /\ pc[p] = "reg_reselect_role"
    /\ IF "customer" \in roles THEN Goto(p, "reg_assign_role")
                               ELSE Answer(p, 500, "ROLE_ASSIGNMENT_FAILED")
    /\ UNCHANGED <<tables, now, nextId, jwtSecret, rq, lv, nreq, acceptedTokens,
                   acceptCount, mw, issued, objects, handedOut, bookings>>

\* jwt.sign({ userId, roles }) of generateToken
generateToken(uid, roleArr) == [userId |-> uid, roles |-> roleArr]

\* mutant: the default role is mistaken for another one
DefaultRole_Provider == "provider"

\* the role the register handler assigns and embeds
DefaultRole == "customer"

\* insert the role assignment, generateToken (throws without a secret), answer 201
RegisterAssignRole(p) ==
    /\ pc[p] = "reg_assign_role"
    /\ IF <<lv[p].userId, DefaultRole>> \in userRoles \/ lv[p].userId \notin UserIds
       THEN /\ Answer(p, 500, "INTERNAL_ERROR")
            /\ UNCHANGED userRoles
       ELSE /\ userRoles' = userRoles \cup {<<lv[p].userId, DefaultRole>>}
            /\ IF ~jwtSecret
               THEN Answer(p, 500, "INTERNAL_ERROR")
               ELSE AnswerWith(p, [status |-> 201, code |-> "OK",
                                   userId |-> lv[p].userId, profileId |-> NoId,
                                   token |-> generateToken(lv[p].userId, <<DefaultRole>>),
                                   temporaryPassword |-> FALSE])
    /\ UNCHANGED <<users, roles, recruiters, recruiterInvitations, recruiterEvents,
                   providerProfiles, providerDocuments, categories>>
    /\ UNCHANGED <<now, nextId, jwtSecret, rq, lv, nreq, acceptedTokens, acceptCount, mw, issued, objects, handedOut, bookings>>

\* any awaited call, to the database or to the storage adapter, may reject (connection
\* lost): the handler's catch answers 500
DbError(p) ==
    /\ ~Idle(p)
    /\ Answer(p, 500, "INTERNAL_ERROR")
    /\ lv' = [lv EXCEPT ![p].dbError = TRUE]
    /\ UNCHANGED <<tables, now, nextId, jwtSecret, rq, nreq, acceptedTokens, acceptCount, mw, issued, objects, handedOut, bookings>>

-----------------------------------------------------------------------------
(* Foreign keys of the schema: what DELETE FROM users takes with it *)

RecruiterIdsOfUser(uid) == {r.id : r \in {x \in recruiters : x.userId = uid}}
ProfileIdsOfUser(uid) == {f.id : f \in {x \in providerProfiles : x.userId = uid}}

\* mutant: onboarded_by and uploaded_by are left as they were (no 'set null')
DeleteUserCascade_NoSetNull(uid) ==
    LET rids == RecruiterIdsOfUser(uid)
        pids == ProfileIdsOfUser(uid)
    IN  /\ users' = {u \in users : u.id # uid}
        /\ userRoles' = {ur \in userRoles : ur[1] # uid}
        /\ recruiters' = {r \in recruiters : r.userId # uid}
        /\ recruiterEvents' = {e \in recruiterEvents : e.recruiterId \notin rids}
        /\ providerProfiles' = {x \in providerProfiles : x.userId # uid}
        /\ providerDocuments' = {x \in providerDocuments : x.providerId \notin pids}
        /\ bookings' = {b \in bookings : b.customerId # uid /\ b.providerId # uid}

\* onDelete: 'cascade' on user_roles, recruiters, provider_profiles, recruiter_events,
\* provider_documents, bookings; onDelete: 'set null' on onboarded_by and uploaded_by
DeleteUserCascade(uid) ==
    LET rids == RecruiterIdsOfUser(uid)
        pids == ProfileIdsOfUser(uid)
    IN  /\ users' = {u \in users : u.id # uid}
        /\ userRoles' = {ur \in userRoles : ur[1] # uid}
        /\ recruiters' = {r \in recruiters : r.userId # uid}
        /\ recruiterEvents' = {e \in recruiterEvents : e.recruiterId \notin rids}
        /\ providerProfiles' =
              {IF f.onboardedBy \in rids THEN [f EXCEPT !.onboardedBy = NoId] ELSE f :
                  f \in {x \in providerProfiles : x.userId # uid}}
        /\ providerDocuments' =
              {IF d.uploadedBy \in rids THEN [d EXCEPT !.uploadedBy = NoId] ELSE d :
                  d \in {x \in providerDocuments : x.providerId \notin pids}}
        /\ bookings' = {b \in bookings : b.customerId # uid /\ b.providerId # uid}

-----------------------------------------------------------------------------
(* POST /api/recruiters/register *)

\* tokens a caller may present: none, or any uuid handed out so far
PresentableTokens == {NoId} \cup handedOut

RegisterRecruiterRequests ==
    {[NoRequest EXCEPT !.h = "registerRecruiter", !.email = e, !.token = t] :
        e \in Emails, t \in PresentableTokens}
    \cup {[NoRequest EXCEPT !.h = "registerRecruiter", !.valid = FALSE]}

\* mutant: the lookup forgets the status filter
PendingInvitationByToken_AnyStatus(t) ==
    {i \in recruiterInvitations : i.token = t}

\* where(and(eq(token, t), eq(status, 'pending')))
PendingInvitationByToken(t) ==
    {i \in recruiterInvitations : i.token = t /\ i.status = "pending"}

\* mutant: the expiry is compared the wrong way round
isExpired_Reversed(invitation) == invitation.expiresAt # NoId /\ now < invitation.expiresAt

\* invitation.expiresAt && invitation.expiresAt < new Date()
isExpired(invitation) == invitation.expiresAt # NoId /\ invitation.expiresAt < now

\* validation; with a token the invitation lookup, without one the duplicate-account lookup
RegisterRecruiterStart(p) ==
    \E r \in RegisterRecruiterRequests :
        /\ Arrive(p, r, MaxRequests)
        /\ IF ~r.valid
           THEN /\ Answer(p, 400, "VALIDATION_ERROR")
                /\ lv' = [lv EXCEPT ![p] = NoLocals]
           ELSE IF r.token # NoId
           THEN LET found == PendingInvitationByToken(r.token)
                    late == r.token \in acceptedTokens
                IN  IF found = {}
                    THEN /\ Answer(p, 400, "INVALID_INVITE_TOKEN")
                         /\ lv' = [lv EXCEPT ![p] = [NoLocals EXCEPT !.late = late]]
                    ELSE LET invitation == CHOOSE i \in found : TRUE
                         IN  IF toLowerCase(invitation.email) # toLowerCase(r.email)
                             THEN /\ Answer(p, 400, "INVITE_EMAIL_MISMATCH")
                                  /\ lv' = [lv EXCEPT ![p] = [NoLocals EXCEPT !.late = late]]
                             ELSE IF isExpired(invitation)
                             THEN /\ Answer(p, 400, "INVITE_EXPIRED")
                                  /\ lv' = [lv EXCEPT ![p] = [NoLocals EXCEPT !.late = late]]
                             ELSE /\ Goto(p, "rr_select_user")
                                  /\ lv' = [lv EXCEPT ![p] =
                                              [NoLocals EXCEPT !.late = late,
                                                               !.invitationId = invitation.id]]
           ELSE /\ lv' = [lv EXCEPT ![p] = NoLocals]
                /\ IF UserByEmail(toLowerCase(r.email)) # {}
                   THEN Answer(p, 409, "USER_EXISTS")
                   ELSE Goto(p, "rr_select_role")
        /\ UNCHANGED <<tables, now, nextId, jwtSecret, acceptedTokens, acceptCount, mw, issued, objects, handedOut, bookings>>

\* prevent duplicate accounts
RegisterRecruiterSelectUser(p) ==
    /\ pc[p] = "rr_select_user"
    /\ IF UserByEmail(toLowerCase(rq[p].email)) # {}
       THEN Answer(p, 409, "USER_EXISTS")
       ELSE Goto(p, "rr_select_role")
    /\ UNCHANGED <<tables, now, nextId, jwtSecret, rq, lv, nreq, acceptedTokens,
                   acceptCount, mw, issued, objects, handedOut, bookings>>

\* getRecruiterRoleId: select the recruiter role
RegisterRecruiterSelectRole(p) ==
    /\ pc[p] = "rr_select_role"
    /\ IF "recruiter" \in roles THEN Goto(p, "rr_insert_user")
                                ELSE Goto(p, "rr_insert_role")
    /\ UNCHANGED <<tables, now, nextId, jwtSecret, rq, lv, nreq, acceptedTokens,
                   acceptCount, mw, issued, objects, handedOut, bookings>>

\* getRecruiterRoleId: plain insert of the role; roles.name is unique
RegisterRecruiterInsertRole(p) ==
    /\ pc[p] = "rr_insert_role"
    /\ IF "recruiter" \in roles
       THEN /\ Answer(p, 500, "INTERNAL_ERROR")
            /\ UNCHANGED roles
       ELSE /\ roles' = roles \cup {"recruiter"}
            /\ Goto(p, "rr_insert_user")
    /\ UNCHANGED <<users, userRoles, recruiters, recruiterInvitations, recruiterEvents,
                   providerProfiles, providerDocuments, categories>>
    /\ UNCHANGED <<now, nextId, jwtSecret, rq, lv, nreq, acceptedTokens, acceptCount, mw, issued, objects, handedOut, bookings>>

RegisterRecruiterInsertUser(p) ==
    /\ pc[p] = "rr_insert_user"
    /\ IF UserByEmail(toLowerCase(rq[p].email)) # {}
       THEN /\ Answer(p, 500, "INTERNAL_ERROR")
            /\ UNCHANGED <<users, nextId, lv>>
       ELSE /\ users' = users \cup {[id |-> nextId, email |-> toLowerCase(rq[p].email)]}
            /\ nextId' = nextId + 1
            /\ lv' = [lv EXCEPT ![p].userId = nextId, ![p].createdUser = TRUE,
                                ![p].wrote.users = @ \cup {[id |-> nextId,
                                                           email |-> toLowerCase(rq[p].email)]}]
            /\ Goto(p, "rr_insert_user_role")
    /\ UNCHANGED <<roles, userRoles, recruiters, recruiterInvitations, recruiterEvents,
                   providerProfiles, providerDocuments, categories>>
    /\ UNCHANGED <<now, jwtSecret, rq, nreq, acceptedTokens, acceptCount, mw, issued, objects, handedOut, bookings>>

\* user_roles.user_id references users: the insert throws when the user is gone
RegisterRecruiterInsertUserRole(p) ==
    /\ pc[p] = "rr_insert_user_role"
    /\ IF lv[p].userId \notin UserIds \/ <<lv[p].userId, "recruiter">> \in userRoles
       THEN /\ Answer(p, 500, "INTERNAL_ERROR")
            /\ UNCHANGED <<userRoles, lv>>
       ELSE /\ userRoles' = userRoles \cup {<<lv[p].userId, "recruiter">>}
            /\ lv' = [lv EXCEPT ![p].wrote.userRoles = @ \cup {<<lv[p].userId, "recruiter">>}]
            /\ Goto(p, "rr_insert_recruiter")
    /\ UNCHANGED <<users, roles, recruiters, recruiterInvitations, recruiterEvents,
                   providerProfiles, providerDocuments, categories>>
    /\ UNCHANGED <<now, nextId, jwtSecret, rq, nreq, acceptedTokens, acceptCount, mw, issued, objects, handedOut, bookings>>

\* mutant: every recruiter starts pending
recruiterStatus_Pending(token) == "pending"

\* const recruiterStatus = token ? 'active' : 'pending'
recruiterStatus(token) == IF token # NoId THEN "active" ELSE "pending"

RegisterRecruiterInsertRecruiter(p) ==
    /\ pc[p] = "rr_insert_recruiter"
    /\ IF lv[p].userId \notin UserIds \/ RecruiterIdsOfUser(lv[p].userId) # {}
       THEN /\ Answer(p, 500, "INTERNAL_ERROR")
            /\ UNCHANGED <<recruiters, nextId, lv>>
       ELSE /\ recruiters' = recruiters \cup
                  {[id |-> nextId, userId |-> lv[p].userId,
                    status |-> recruiterStatus(rq[p].token)]}
            /\ nextId' = nextId + 1
            /\ lv' = [lv EXCEPT ![p].recruiterId = nextId,
                                ![p].wrote.recruiters = @ \cup
                                    {[id |-> nextId, userId |-> lv[p].userId,
                                      status |-> recruiterStatus(rq[p].token)]}]
            /\ Goto(p, "rr_insert_event")
    /\ UNCHANGED <<users, roles, userRoles, recruiterInvitations, recruiterEvents,
                   providerProfiles, providerDocuments, categories>>
    /\ UNCHANGED <<now, jwtSecret, rq, nreq, acceptedTokens, acceptCount, mw, issued, objects, handedOut, bookings>>

\* the 201 answer of registerRecruiter: generateToken throws without a secret
RegisterRecruiterAnswer(p) ==
    IF ~jwtSecret
    THEN /\ Answer(p, 500, "INTERNAL_ERROR")
         /\ UNCHANGED acceptedTokens
    ELSE /\ AnswerWith(p, [status |-> 201, code |-> "OK", userId |-> lv[p].userId,
                           profileId |-> NoId,
                           token |-> generateToken(lv[p].userId, <<"recruiter">>),
                           temporaryPassword |-> FALSE])
         /\ acceptedTokens' = IF rq[p].token # NoId
                              THEN acceptedTokens \cup {rq[p].token}
                              ELSE acceptedTokens

\* log recruiter_registered; without an invitation the handler then answers
RegisterRecruiterInsertEvent(p) ==
    /\ pc[p] = "rr_insert_event"
    /\ IF lv[p].recruiterId \notin {r.id : r \in recruiters}
       THEN /\ Answer(p, 500, "INTERNAL_ERROR")
            /\ UNCHANGED <<recruiterEvents, nextId, acceptedTokens, lv>>
       ELSE /\ recruiterEvents' = recruiterEvents \cup
                  {[id |-> nextId, recruiterId |-> lv[p].recruiterId,
                    eventType |-> "recruiter_registered", providerId |-> NoId]}
            /\ lv' = [lv EXCEPT ![p].wrote.recruiterEvents = @ \cup
                          {[id |-> nextId, recruiterId |-> lv[p].recruiterId,
                            eventType |-> "recruiter_registered", providerId |-> NoId]}]
            /\ nextId' = nextId + 1
            /\ IF lv[p].invitationId # NoId
               THEN /\ Goto(p, "rr_accept")
                    /\ UNCHANGED acceptedTokens
               ELSE RegisterRecruiterAnswer(p)
    /\ UNCHANGED <<users, roles, userRoles, recruiters, recruiterInvitations,
                   providerProfiles, providerDocuments, categories>>
    /\ UNCHANGED <<now, jwtSecret, rq, nreq, acceptCount, mw, issued, objects, handedOut, bookings>>

\* history: count the pending -> accepted moves of each token
CountAccepts(id) ==
    LET moved == {i.token : i \in {x \in recruiterInvitations :
                                      x.id = id /\ x.status = "pending"}}
    IN  [t \in DOMAIN acceptCount \cup moved |->
            (IF t \in DOMAIN acceptCount THEN acceptCount[t] ELSE 0)
            + (IF t \in moved THEN 1 ELSE 0)]

\* update ... set status 'accepted', acceptedAt where id = invitationId
RegisterRecruiterAccept(p) ==
    /\ pc[p] = "rr_accept"
    /\ recruiterInvitations' =
          {IF i.id = lv[p].invitationId
           THEN [i EXCEPT !.status = "accepted", !.acceptedAt = now]
           ELSE i : i \in recruiterInvitations}
    /\ acceptCount' = CountAccepts(lv[p].invitationId)
    /\ RegisterRecruiterAnswer(p)
    /\ UNCHANGED <<users, roles, userRoles, recruiters, recruiterEvents,
                   providerProfiles, providerDocuments, categories>>
    /\ UNCHANGED <<now, nextId, jwtSecret, rq, lv, nreq, mw, issued, objects, handedOut, bookings>>

-----------------------------------------------------------------------------
(* POST /api/recruiters/invitations *)

MaxExpiresInDays == 1    \* bound on expiresInDays (one clock tick is a day)

AdminId == NoId + 1
AdminUser == Identity(AdminId, <<"administrator">>)

InviteRequests ==
    {[NoRequest EXCEPT !.h = "createRecruiterInvitation", !.user = AdminUser,
                       !.email = e, !.id = d] :
        e \in Emails, d \in 1..MaxExpiresInDays}
    \cup {[NoRequest EXCEPT !.h = "createRecruiterInvitation", !.user = AdminUser,
                            !.valid = FALSE]}

CreateRecruiterInvitationStart(p) ==
    \E r \in InviteRequests :
        /\ Arrive(p, r, MaxRequests)
        /\ lv' = [lv EXCEPT ![p] = NoLocals]
        /\ IF ~r.valid THEN Answer(p, 400, "VALIDATION_ERROR")
           ELSE IF UserByEmail(toLowerCase(r.email)) # {}
                THEN Answer(p, 409, "USER_EXISTS")
                ELSE Goto(p, "ci_upsert")
        /\ UNCHANGED <<tables, now, nextId, jwtSecret, acceptedTokens, acceptCount, mw, issued, objects, handedOut, bookings>>

\* insert ... onConflictDoUpdate({ target: email, set: {...} }) with a fresh token
\* mutant: the insert has no conflict clause on the email
onConflictDoUpdate_Append(fresh) == recruiterInvitations \cup {fresh}

\* insert ... onConflictDoUpdate({target: email, set: {...}}): the row of the email
\* keeps its id and takes the new values
onConflictDoUpdate(fresh) ==
    IF \E i \in recruiterInvitations : i.email = fresh.email
    THEN {IF i.email = fresh.email THEN [fresh EXCEPT !.id = i.id] ELSE i :
             i \in recruiterInvitations}
    ELSE recruiterInvitations \cup {fresh}

CreateRecruiterInvitationUpsert(p) ==
    /\ pc[p] = "ci_upsert"
    /\ LET email == toLowerCase(rq[p].email)
           fresh == [id |-> nextId + 1, email |-> email, token |-> nextId,
                     status |-> "pending", expiresAt |-> now + rq[p].id,
                     acceptedAt |-> NoId, revokedAt |-> NoId]
       IN  recruiterInvitations' = onConflictDoUpdate(fresh)
    /\ nextId' = nextId + 2
    /\ handedOut' = handedOut \cup {nextId}
    /\ Answer(p, 201, "OK")
    /\ UNCHANGED <<users, roles, userRoles, recruiters, recruiterEvents,
                   providerProfiles, providerDocuments, categories>>
    /\ UNCHANGED <<now, jwtSecret, rq, lv, nreq, acceptedTokens, acceptCount, mw, issued, objects,
                   bookings>>

-----------------------------------------------------------------------------
(* PATCH /api/recruiters/invitations/:id/revoke *)

RevokeRequests ==
    {[NoRequest EXCEPT !.h = "revokeRecruiterInvitation", !.user = AdminUser, !.id = i.id] :
        i \in recruiterInvitations}

\* the statuses revokeRecruiterInvitation refuses to touch
RevokeRefused == {"accepted"}

RevokeRecruiterInvitationStart(p) ==
    \E r \in RevokeRequests :
        /\ Arrive(p, r, MaxRequests)
        /\ lv' = [lv EXCEPT ![p] = NoLocals]
        /\ LET found == {i \in recruiterInvitations : i.id = r.id}
           IN  IF found = {} THEN Answer(p, 404, "INVITATION_NOT_FOUND")
               ELSE IF (CHOOSE i \in found : TRUE).status \in RevokeRefused
                    THEN Answer(p, 400, "INVITE_ALREADY_ACCEPTED")
                    ELSE Goto(p, "rv_update")
        /\ UNCHANGED <<tables, now, nextId, jwtSecret, acceptedTokens, acceptCount, mw, issued, objects, handedOut, bookings>>

RevokeRecruiterInvitationUpdate(p) ==
    /\ pc[p] = "rv_update"
    /\ recruiterInvitations' =
          {IF i.id = rq[p].id THEN [i EXCEPT !.status = "revoked", !.revokedAt = now]
                              ELSE i : i \in recruiterInvitations}
    /\ Answer(p, 200, "OK")
    /\ UNCHANGED <<users, roles, userRoles, recruiters, recruiterEvents,
                   providerProfiles, providerDocuments, categories>>
    /\ UNCHANGED <<now, nextId, jwtSecret, rq, lv, nreq, acceptedTokens, acceptCount, mw, issued, objects, handedOut, bookings>>

-----------------------------------------------------------------------------
(* DELETE /api/admin/users/:id *)

DeleteUserRequests ==
    {[NoRequest EXCEPT !.h = "deleteUser", !.user = AdminUser, !.id = u.id] : u \in users}

DeleteUserStart(p) ==
    \E r \in DeleteUserRequests :
        /\ Arrive(p, r, MaxRequests)
        /\ lv' = [lv EXCEPT ![p] = NoLocals]
        /\ IF r.id \notin UserIds THEN Answer(p, 404, "USER_NOT_FOUND")
           ELSE IF r.user.auth /\ r.user.userId = r.id
                THEN Answer(p, 400, "CANNOT_DELETE_SELF")
                ELSE Goto(p, "du_delete")
        /\ UNCHANGED <<tables, now, nextId, jwtSecret, acceptedTokens, acceptCount, mw, issued, objects, handedOut, bookings>>

DeleteUserDelete(p) ==
    /\ pc[p] = "du_delete"
    /\ DeleteUserCascade(rq[p].id)
    /\ Answer(p, 200, "OK")
    /\ UNCHANGED <<roles, recruiterInvitations, categories>>
    /\ UNCHANGED <<now, nextId, jwtSecret, rq, lv, nreq, acceptedTokens, acceptCount, mw, issued, objects, handedOut>>

\* time passes
Tick ==
    /\ now < Epoch + MaxClock
    /\ now' = now + 1
    /\ UNCHANGED <<tables, nextId, jwtSecret, pc, rq, lv, resp, nreq, acceptedTokens,
                   acceptCount, mw, issued, objects, handedOut, bookings>>

-----------------------------------------------------------------------------
(* Role middleware (middlewares/roleAuth) *)

MwNext == [status |-> 0, code |-> NoStr, next |-> TRUE]
MwDeny(s, c) == [status |-> s, code |-> c, next |-> FALSE]

\* mutant: any-of checked as all-of
hasRole_Every(requiredRoles, user) ==
    IF ~user.auth THEN MwDeny(401, "UNAUTHENTICATED")
    ELSE IF ~everyIncluded(requiredRoles, user.roles)
         THEN MwDeny(403, "INSUFFICIENT_PERMISSIONS")
         ELSE MwNext

hasRole(requiredRoles, user) ==
    IF ~user.auth THEN MwDeny(401, "UNAUTHENTICATED")
    ELSE IF ~someIncluded(requiredRoles, user.roles)
         THEN MwDeny(403, "INSUFFICIENT_PERMISSIONS")
         ELSE MwNext

hasAllRoles(requiredRoles, user) ==
    IF ~user.auth THEN MwDeny(401, "UNAUTHENTICATED")
    ELSE IF ~everyIncluded(requiredRoles, user.roles)
         THEN MwDeny(403, "INSUFFICIENT_PERMISSIONS")
         ELSE MwNext

\* targetUserId is req.params.userId (NoId when the route has no such parameter)
isOwnerOrAdmin(user, targetUserId) ==
    IF ~user.auth THEN MwDeny(401, "UNAUTHENTICATED")
    ELSE IF includes(user.roles, "administrator") \/ user.userId = targetUserId
         THEN MwNext
         ELSE MwDeny(403, "INSUFFICIENT_PERMISSIONS")

isProviderOrAdmin(user) ==
    IF ~user.auth THEN MwDeny(401, "UNAUTHENTICATED")
    ELSE IF includes(user.roles, "administrator") \/ includes(user.roles, "provider")
         THEN MwNext
         ELSE MwDeny(403, "INSUFFICIENT_PERMISSIONS")

-----------------------------------------------------------------------------
(* providerProfilesService: the "ensure" helpers, run as sub-steps of a request *)

\* ensureRoleId, first select
EnsureRoleSelect(p) ==
    /\ pc[p] = "er_select"
    /\ IF lv[p].roleName \in roles THEN Goto(p, lv[p].erRet) ELSE Goto(p, "er_insert")
    /\ UNCHANGED <<tables, now, nextId, jwtSecret, rq, lv, nreq, acceptedTokens,
                   acceptCount, mw, issued, objects, handedOut, bookings>>

\* ensureRoleId, insert onConflictDoNothing returning: a row comes back only when inserted
EnsureRoleInsert(p) ==
    /\ pc[p] = "er_insert"
    /\ roles' = roles \cup {lv[p].roleName}
    /\ IF lv[p].roleName \in roles THEN Goto(p, "er_reselect") ELSE Goto(p, lv[p].erRet)
    /\ UNCHANGED <<users, userRoles, recruiters, recruiterInvitations, recruiterEvents,
                   providerProfiles, providerDocuments, categories>>
    /\ UNCHANGED <<now, nextId, jwtSecret, rq, lv, nreq, acceptedTokens, acceptCount, mw, issued, objects, handedOut, bookings>>

\* ensureRoleId, fallback select; throws when the role is still missing
EnsureRoleReselect(p) ==
    /\ pc[p] = "er_reselect"
    /\ IF lv[p].roleName \in roles THEN Goto(p, lv[p].erRet)
                                   ELSE Answer(p, 500, "INTERNAL_ERROR")
    /\ UNCHANGED <<tables, now, nextId, jwtSecret, rq, lv, nreq, acceptedTokens,
                   acceptCount, mw, issued, objects, handedOut, bookings>>

\* ensureUserHasRole, select the assignment
EnsureUserHasRoleSelect(p) ==
    /\ pc[p] = "eu_select"
    /\ IF <<lv[p].userId, lv[p].roleName>> \in userRoles
       THEN Goto(p, lv[p].euRet)
       ELSE Goto(p, "eu_insert")
    /\ UNCHANGED <<tables, now, nextId, jwtSecret, rq, lv, nreq, acceptedTokens,
                   acceptCount, mw, issued, objects, handedOut, bookings>>

\* mutant: the assignment is checked but never written
EnsureUserHasRoleWrite_Skip(uid, role) == userRoles

\* insert(userRoles).values({ userId, roleId }).onConflictDoNothing()
EnsureUserHasRoleWrite(uid, role) == userRoles \cup {<<uid, role>>}

\* ensureUserHasRole, insert; user_roles references users and roles
EnsureUserHasRoleInsert(p) ==
    /\ pc[p] = "eu_insert"
    /\ IF lv[p].userId \notin UserIds \/ lv[p].roleName \notin roles
       THEN /\ Answer(p, 500, "INTERNAL_ERROR")
            /\ UNCHANGED userRoles
       ELSE /\ userRoles' = EnsureUserHasRoleWrite(lv[p].userId, lv[p].roleName)
            /\ Goto(p, lv[p].euRet)
    /\ lv' = [lv EXCEPT ![p].wrote.userRoles = @ \cup (userRoles' \ userRoles)]
    /\ UNCHANGED <<users, roles, recruiters, recruiterInvitations, recruiterEvents,
                   providerProfiles, providerDocuments, categories>>
    /\ UNCHANGED <<now, nextId, jwtSecret, rq, nreq, acceptedTokens, acceptCount, mw, issued, objects, handedOut, bookings>>

\* ilike(categories.name, trimmed) on the category names of the model
lowerCategory(c) == IF c = "Plumber" THEN "plumber" ELSE IF c = "Builder" THEN "builder" ELSE c
CategoryLike(name) == {c \in categories : lowerCategory(c) = lowerCategory(name)}

\* ensureCategoryByName as the handlers of the profile scenario use it, always with the
\* same spelling of the name: lookup, insert onConflictDoNothing, fallback lookup
ensureCategoryByName(name) ==
    IF CategoryLike(name) # {} THEN categories ELSE categories \cup {name}

\* a null numeric column; a decimal string is the sequence of its characters
NullDecimal == <<"null">>

Digits == <<"0", "1", "2", "3", "4", "5", "6", "7", "8", "9">>

\* Number.prototype.toString of a natural number
RECURSIVE toString(_)
toString(n) ==
    IF n < 10 THEN <<Digits[n + 1]>>
    ELSE Append(toString(n \div 10), Digits[(n % 10) + 1])

\* toDecimalString: null stays null, a number is printed, a string is kept
toDecimalString(value) ==
    IF value.kind \in {"undefined", "null"} THEN NullDecimal
    ELSE IF value.kind = "number" THEN toString(value.num)
    ELSE value.str

\* Date.prototype.getTime of an invalid date
NaN == 0 - 1

\* new Date(string).getTime() on the strings of the model (days since the epoch)
parseDate(s) ==
    IF s = <<"1970-01-02">> THEN Epoch + 1
    ELSE IF s = <<"1970-01-03">> THEN Epoch + 2
    ELSE NaN

\* toDateValue: a falsy input, an invalid Date and an unparsable string give null
toDateValue(value) ==
    IF value.kind \in {"undefined", "null"} THEN NoId
    ELSE IF value.kind = "date" THEN (IF value.num = NaN THEN NoId ELSE value.num)
    ELSE IF value.str = <<"">> THEN NoId
    ELSE IF parseDate(value.str) = NaN THEN NoId ELSE parseDate(value.str)

\* what createProviderProfileRecord / insert(providerProfiles) stores
NewProfile(id, uid, status, onboardedBy, onboardedAt) ==
    [id |-> id, userId |-> uid, status |-> status, onboardedBy |-> onboardedBy,
     onboardedAt |-> onboardedAt, description |-> NoStr,
     pricePerHour |-> toDecimalString(NoValue),
     nextAvailability |-> toDateValue(NoValue), updatedAt |-> now]

ProfileById(id) == {f \in providerProfiles : f.id = id}
ProfilesOfUser(uid) == {f \in providerProfiles : f.userId = uid}
RecruiterIds == {r.id : r \in recruiters}

\* mutant: provider_profiles.user_id loses its unique constraint
ProfileInsertRejected_NoUnique(uid, onboardedBy) ==
    \/ uid \notin UserIds
    \/ (onboardedBy # NoId /\ onboardedBy \notin RecruiterIds)

\* the constraints of provider_profiles an insert can violate:
\* user_id unique and referencing users, onboarded_by referencing recruiters
ProfileInsertRejected(uid, onboardedBy) ==
    \/ ProfilesOfUser(uid) # {}
    \/ uid \notin UserIds
    \/ (onboardedBy # NoId /\ onboardedBy \notin RecruiterIds)

\* mutant: set() is given every column, the absent ones as null
updateProviderProfileRecord_Full(profileId, updates) ==
    {IF f.id = profileId
     THEN [f EXCEPT
             !.description = IF updates.description # Undefined
                             THEN updates.description ELSE NoStr,
             !.status = IF updates.status # Undefined THEN updates.status ELSE @,
             !.pricePerHour = toDecimalString(updates.pricePerHour),
             !.nextAvailability = toDateValue(updates.nextAvailability),
             !.updatedAt = now]
     ELSE f : f \in providerProfiles}

\* updateProviderProfileRecord: only the supplied fields are set, updatedAt always
updateProviderProfileRecord(profileId, updates) ==
    {IF f.id = profileId
     THEN [f EXCEPT
             !.description = IF updates.description # Undefined
                             THEN updates.description ELSE @,
             !.status = IF updates.status # Undefined THEN updates.status ELSE @,
             !.pricePerHour = IF updates.pricePerHour.kind # "undefined"
                              THEN toDecimalString(updates.pricePerHour) ELSE @,
             !.nextAvailability = IF updates.nextAvailability.kind # "undefined"
                                  THEN toDateValue(updates.nextAvailability) ELSE @,
             !.updatedAt = now]
     ELSE f : f \in providerProfiles}

-----------------------------------------------------------------------------
(* The identities of the profile scenarios *)

RecruiterUserId == AdminId + 1
RecruiterRowId == RecruiterUserId + 1
ProviderUserId == RecruiterRowId + 1
FirstFreeId == ProviderUserId + 1

RecruiterUser == Identity(RecruiterUserId, <<"recruiter">>)
ProviderUser == Identity(ProviderUserId, <<"provider">>)

\* the identities a token can carry: login signs the roles the database holds for the user
Sessions ==
    {u \in {AdminUser, RecruiterUser, ProviderUser} :
        \A i \in 1..Len(u.roles) : <<u.userId, u.roles[i]>> \in userRoles}

ProfileStatuses == {"pending", "active", "rejected", "suspended"}

-----------------------------------------------------------------------------
(* POST /api/profiles  (authenticateToken, hasRole(['provider','administrator'])) *)

\* a body with a status key fails createProviderProfileSchema: unknown keys are not allowed
CreateProviderProfileRequests ==
    {[NoRequest EXCEPT !.h = "createProviderProfile", !.user = u, !.status = st] :
        u \in Sessions, st \in {Undefined, "active"}}

CreateProviderProfileStart(p) ==
    \E r \in CreateProviderProfileRequests :
        /\ Arrive(p, r, MaxProfileRequests)
        /\ lv' = [lv EXCEPT ![p] =
                    [NoLocals EXCEPT !.userId = r.user.userId,
                                     !.hadProfile = ProfilesOfUser(r.user.userId) # {}]]
        /\ LET gate == hasRole(<<"provider", "administrator">>, r.user)
           IN  IF ~gate.next THEN Answer(p, gate.status, gate.code)
               ELSE IF ~r.valid \/ r.status # Undefined
                    THEN Answer(p, 400, "VALIDATION_ERROR")
               ELSE IF ProfilesOfUser(r.user.userId) # {}
                    THEN Answer(p, 409, "PROFILE_EXISTS")
                    ELSE Goto(p, "cpp_insert_profile")
        /\ UNCHANGED <<tables, now, nextId, jwtSecret, acceptedTokens, acceptCount, mw, issued, objects, handedOut, bookings>>

\* insert(providerProfiles).values({ userId, ...value }): status takes its default
CreateProviderProfileInsert(p) ==
    /\ pc[p] = "cpp_insert_profile"
    /\ IF ProfileInsertRejected(lv[p].userId, NoId)
       THEN /\ Answer(p, 500, "INTERNAL_ERROR")
            /\ UNCHANGED <<providerProfiles, nextId, lv>>
       ELSE /\ providerProfiles' = providerProfiles \cup
                  {NewProfile(nextId, lv[p].userId, "pending", NoId, NoId)}
            /\ nextId' = nextId + 1
            /\ lv' = [lv EXCEPT ![p].profileId = nextId, ![p].insertedProfile = TRUE]
            /\ Goto(p, "cpp_select_role")
    /\ UNCHANGED <<users, roles, userRoles, recruiters, recruiterInvitations,
                   recruiterEvents, providerDocuments, categories>>
    /\ UNCHANGED <<now, jwtSecret, rq, nreq, acceptedTokens, acceptCount, mw, issued, objects, handedOut, bookings>>

CreateProviderProfileAnswer(p) ==
    AnswerWith(p, [NoResponse EXCEPT !.status = 201, !.code = "OK",
                                     !.userId = lv[p].userId,
                                     !.profileId = lv[p].profileId])

\* select the provider role; when the roles table has none, nothing is assigned
CreateProviderProfileSelectRole(p) ==
    /\ pc[p] = "cpp_select_role"
    /\ IF "provider" \in roles THEN Goto(p, "cpp_select_user_role")
                               ELSE CreateProviderProfileAnswer(p)
    /\ UNCHANGED <<tables, now, nextId, jwtSecret, rq, lv, nreq, acceptedTokens,
                   acceptCount, mw, issued, objects, handedOut, bookings>>

CreateProviderProfileSelectUserRole(p) ==
    /\ pc[p] = "cpp_select_user_role"
    /\ IF <<lv[p].userId, "provider">> \in userRoles
       THEN CreateProviderProfileAnswer(p)
       ELSE Goto(p, "cpp_insert_user_role")
    /\ UNCHANGED <<tables, now, nextId, jwtSecret, rq, lv, nreq, acceptedTokens,
                   acceptCount, mw, issued, objects, handedOut, bookings>>

\* plain insert of the assignment: a duplicate or a missing user throws
CreateProviderProfileInsertUserRole(p) ==
    /\ pc[p] = "cpp_insert_user_role"
    /\ IF <<lv[p].userId, "provider">> \in userRoles \/ lv[p].userId \notin UserIds
       THEN /\ Answer(p, 500, "INTERNAL_ERROR")
            /\ UNCHANGED userRoles
       ELSE /\ userRoles' = userRoles \cup {<<lv[p].userId, "provider">>}
            /\ CreateProviderProfileAnswer(p)
    /\ UNCHANGED <<users, roles, recruiters, recruiterInvitations, recruiterEvents,
                   providerProfiles, providerDocuments, categories>>
    /\ UNCHANGED <<now, nextId, jwtSecret, rq, lv, nreq, acceptedTokens, acceptCount, mw, issued, objects, handedOut, bookings>>

-----------------------------------------------------------------------------
(* PUT /api/profiles/:id  (authenticateToken) *)

\* :id is the id of a stored profile or a uuid no profile has
UpdateProviderProfileRequests ==
    {[NoRequest EXCEPT !.h = "updateProviderProfile", !.user = u, !.id = i,
                       !.status = st, !.description = "edited"] :
        u \in Sessions, i \in {f.id : f \in providerProfiles} \cup {nextId},
        st \in {Undefined, "active"}}

\* mutant: the ownership test is dropped
mayUpdateProfile_Anyone(profile, user) == TRUE

\* profile.userId !== userId && !userRoles.includes('administrator'), negated
mayUpdateProfile(profile, user) ==
    profile.userId = user.userId \/ includes(user.roles, "administrator")

UpdateProviderProfileStart(p) ==
    \E r \in UpdateProviderProfileRequests :
        /\ Arrive(p, r, MaxProfileRequests)
        /\ lv' = [lv EXCEPT ![p] = NoLocals]
        /\ IF ~r.user.auth THEN Answer(p, 401, "UNAUTHENTICATED")
           ELSE IF ~r.valid \/ r.status # Undefined
                THEN Answer(p, 400, "VALIDATION_ERROR")
           ELSE IF ProfileById(r.id) = {} THEN Answer(p, 404, "PROFILE_NOT_FOUND")
           ELSE IF ~mayUpdateProfile(CHOOSE f \in ProfileById(r.id) : TRUE, r.user)
                THEN Answer(p, 403, "INSUFFICIENT_PERMISSIONS")
                ELSE Goto(p, "upp_update")
        /\ UNCHANGED <<tables, now, nextId, jwtSecret, acceptedTokens, acceptCount, mw, issued, objects, handedOut, bookings>>

\* update(providerProfiles).set({ ...value, updatedAt }): value holds the validated keys
UpdateProviderProfileUpdate(p) ==
    /\ pc[p] = "upp_update"
    /\ providerProfiles' =
          updateProviderProfileRecord(rq[p].id,
              [NoUpdates EXCEPT !.description = rq[p].description])
    /\ Answer(p, 200, "OK")
    /\ UNCHANGED <<users, roles, userRoles, recruiters, recruiterInvitations,
                   recruiterEvents, providerDocuments, categories>>
    /\ UNCHANGED <<now, nextId, jwtSecret, rq, lv, nreq, acceptedTokens, acceptCount, mw, issued, objects, handedOut, bookings>>

-----------------------------------------------------------------------------
(* POST /api/offline/providers  (authenticateToken, hasRole(['recruiter','administrator'])) *)

OfflineEmails == {"A@x.com", "mike@x.com", "pro@x.com"}

DocumentKeys == {<<>>, <<"k1">>}

\* body.recruiterId is read for an administrator only
OfflineActors ==
    {<<u, NoId>> : u \in Sessions} \cup
    {<<u, i>> : u \in Sessions \cap {AdminUser}, i \in {RecruiterRowId, ProviderUserId}}

CreateOfflineProviderRequests ==
    {[NoRequest EXCEPT !.h = "createOfflineProvider", !.user = a[1], !.email = e,
                       !.recruiterId = a[2], !.docs = ds, !.category = "Plumber"] :
        a \in OfflineActors, e \in OfflineEmails, ds \in DocumentKeys}

\* mutant: an administrator's recruiterId is taken as given
resolveRecruiterId_Unchecked(user, bodyRecruiterId) ==
    IF includes(user.roles, "recruiter")
    THEN LET rows == {r \in recruiters : r.userId = user.userId}
         IN  IF rows = {} THEN [id |-> NoId, error |-> "RECRUITER_PROFILE_NOT_FOUND"]
             ELSE [id |-> (CHOOSE r \in rows : TRUE).id, error |-> NoStr]
    ELSE IF includes(user.roles, "administrator")
    THEN [id |-> bodyRecruiterId, error |-> NoStr]
    ELSE [id |-> NoId, error |-> "INSUFFICIENT_PERMISSIONS"]

\* resolveRecruiterId: the acting recruiter, or the error it throws
resolveRecruiterId(user, bodyRecruiterId) ==
    IF includes(user.roles, "recruiter")
    THEN LET rows == {r \in recruiters : r.userId = user.userId}
         IN  IF rows = {} THEN [id |-> NoId, error |-> "RECRUITER_PROFILE_NOT_FOUND"]
             ELSE [id |-> (CHOOSE r \in rows : TRUE).id, error |-> NoStr]
    ELSE IF includes(user.roles, "administrator")
    THEN IF bodyRecruiterId = NoId THEN [id |-> NoId, error |-> "RECRUITER_ID_REQUIRED"]
         ELSE IF bodyRecruiterId \notin RecruiterIds
              THEN [id |-> NoId, error |-> "RECRUITER_NOT_FOUND"]
              ELSE [id |-> bodyRecruiterId, error |-> NoStr]
    ELSE [id |-> NoId, error |-> "INSUFFICIENT_PERMISSIONS"]

CreateOfflineProviderStart(p) ==
    \E r \in CreateOfflineProviderRequests :
        /\ Arrive(p, r, MaxProfileRequests)
        /\ LET gate == hasRole(<<"recruiter", "administrator">>, r.user)
               acting == resolveRecruiterId(r.user, r.recruiterId)
           IN  IF ~gate.next
               THEN /\ Answer(p, gate.status, gate.code)
                    /\ lv' = [lv EXCEPT ![p] = NoLocals]
               ELSE IF ~r.valid
               THEN /\ Answer(p, 400, "VALIDATION_ERROR")
                    /\ lv' = [lv EXCEPT ![p] = NoLocals]
               ELSE IF acting.error # NoStr
               THEN /\ Answer(p, IF acting.error = "INSUFFICIENT_PERMISSIONS"
                                 THEN 403 ELSE 400, acting.error)
                    /\ lv' = [lv EXCEPT ![p] = NoLocals]
               ELSE /\ Goto(p, "er_select")
                    /\ lv' = [lv EXCEPT ![p] =
                                [NoLocals EXCEPT !.recruiterId = acting.id,
                                                 !.roleName = "provider",
                                                 !.erRet = "cop_select_user"]]
        /\ UNCHANGED <<tables, now, nextId, jwtSecret, acceptedTokens, acceptCount, mw, issued, objects, handedOut, bookings>>

\* look the user up by the lower-cased e-mail; temporaryPassword (TRUE: a string,
\* FALSE: null) is generated when no user is found
CreateOfflineProviderSelectUser(p) ==
    /\ pc[p] = "cop_select_user"
    /\ LET existing == UserByEmail(toLowerCase(rq[p].email))
       IN  IF existing = {}
           THEN /\ Goto(p, "cop_insert_user")
                /\ lv' = [lv EXCEPT ![p].temporaryPassword = TRUE]
           ELSE /\ Goto(p, "cop_select_profile")
                /\ lv' = [lv EXCEPT ![p].userId = (CHOOSE u \in existing : TRUE).id]
    /\ UNCHANGED <<tables, now, nextId, jwtSecret, rq, nreq, acceptedTokens, acceptCount, mw, issued, objects, handedOut, bookings>>

\* create the user with a temporary password; users.email is unique
CreateOfflineProviderInsertUser(p) ==
    /\ pc[p] = "cop_insert_user"
    /\ IF UserByEmail(toLowerCase(rq[p].email)) # {}
       THEN /\ Answer(p, 500, "INTERNAL_ERROR")
            /\ UNCHANGED <<users, nextId, lv>>
       ELSE /\ users' = users \cup {[id |-> nextId, email |-> toLowerCase(rq[p].email)]}
            /\ nextId' = nextId + 1
            /\ lv' = [lv EXCEPT ![p].userId = nextId, ![p].createdUser = TRUE,
                                ![p].euRet = "cop_category",
                                ![p].wrote.users = @ \cup (users' \ users)]
            /\ Goto(p, "eu_select")
    /\ UNCHANGED <<roles, userRoles, recruiters, recruiterInvitations, recruiterEvents,
                   providerProfiles, providerDocuments, categories>>
    /\ UNCHANGED <<now, jwtSecret, rq, nreq, acceptedTokens, acceptCount, mw, issued, objects, handedOut, bookings>>

\* an existing user must not have a provider profile yet
CreateOfflineProviderSelectProfile(p) ==
    /\ pc[p] = "cop_select_profile"
    /\ IF ProfilesOfUser(lv[p].userId) # {}
       THEN /\ Answer(p, 409, "PROVIDER_EXISTS")
            /\ UNCHANGED lv
       ELSE /\ Goto(p, "eu_select")
            /\ lv' = [lv EXCEPT ![p].euRet = "cop_category"]
    /\ UNCHANGED <<tables, now, nextId, jwtSecret, rq, nreq, acceptedTokens, acceptCount, mw, issued, objects, handedOut, bookings>>

CreateOfflineProviderCategory(p) ==
    /\ pc[p] = "cop_category"
    /\ categories' = ensureCategoryByName(rq[p].category)
    /\ Goto(p, "cop_insert_profile")
    /\ UNCHANGED <<users, roles, userRoles, recruiters, recruiterInvitations,
                   recruiterEvents, providerProfiles, providerDocuments>>
    /\ UNCHANGED <<now, nextId, jwtSecret, rq, lv, nreq, acceptedTokens, acceptCount, mw, issued, objects, handedOut, bookings>>

\* createProviderProfileRecord({ ..., status: 'pending', onboardedBy, onboardedAt })
CreateOfflineProviderInsertProfile(p) ==
    /\ pc[p] = "cop_insert_profile"
    /\ IF ProfileInsertRejected(lv[p].userId, lv[p].recruiterId)
       THEN /\ Answer(p, 500, "INTERNAL_ERROR")
            /\ UNCHANGED <<providerProfiles, nextId, lv>>
       ELSE /\ providerProfiles' = providerProfiles \cup
                  {NewProfile(nextId, lv[p].userId, "pending", lv[p].recruiterId, now)}
            /\ nextId' = nextId + 1
            /\ lv' = [lv EXCEPT ![p].profileId = nextId, ![p].insertedProfile = TRUE,
                                ![p].wrote.providerProfiles =
                                    @ \cup (providerProfiles' \ providerProfiles)]
            /\ IF Len(rq[p].docs) > 0 THEN Goto(p, "cop_insert_docs")
                                      ELSE Goto(p, "cop_insert_event")
    /\ UNCHANGED <<users, roles, userRoles, recruiters, recruiterInvitations,
                   recruiterEvents, providerDocuments, categories>>
    /\ UNCHANGED <<now, jwtSecret, rq, nreq, acceptedTokens, acceptCount, mw, issued, objects, handedOut, bookings>>

\* mutant: the documents are stored without their uploader
insertProviderDocuments_NoUploader(keys, providerId, uploadedBy) ==
    providerDocuments \cup
        {[id |-> nextId + i - 1, providerId |-> providerId, storageKey |-> keys[i],
          uploadedBy |-> NoId] : i \in 1..Len(keys)}

\* insertProviderDocuments: one row per document, each with a fresh id
insertProviderDocuments(keys, providerId, uploadedBy) ==
    providerDocuments \cup
        {[id |-> nextId + i - 1, providerId |-> providerId, storageKey |-> keys[i],
          uploadedBy |-> uploadedBy] : i \in 1..Len(keys)}

DocumentInsertRejected(providerId, uploadedBy) ==
    \/ ProfileById(providerId) = {}
    \/ (uploadedBy # NoId /\ uploadedBy \notin RecruiterIds)

CreateOfflineProviderInsertDocs(p) ==
    /\ pc[p] = "cop_insert_docs"
    /\ IF DocumentInsertRejected(lv[p].profileId, lv[p].recruiterId)
       THEN /\ Answer(p, 500, "INTERNAL_ERROR")
            /\ UNCHANGED <<providerDocuments, nextId>>
       ELSE /\ providerDocuments' =
                  insertProviderDocuments(rq[p].docs, lv[p].profileId, lv[p].recruiterId)
            /\ nextId' = nextId + Len(rq[p].docs)
            /\ Goto(p, "cop_insert_event")
    /\ lv' = [lv EXCEPT ![p].wrote.providerDocuments =
                            @ \cup (providerDocuments' \ providerDocuments)]
    /\ UNCHANGED <<users, roles, userRoles, recruiters, recruiterInvitations,
                   recruiterEvents, providerProfiles, categories>>
    /\ UNCHANGED <<now, jwtSecret, rq, nreq, acceptedTokens, acceptCount, mw, issued, objects, handedOut, bookings>>

\* append provider_onboarded and answer 201
CreateOfflineProviderInsertEvent(p) ==
    /\ pc[p] = "cop_insert_event"
    /\ IF lv[p].recruiterId \notin RecruiterIds
       THEN /\ Answer(p, 500, "INTERNAL_ERROR")
            /\ UNCHANGED <<recruiterEvents, nextId>>
       ELSE /\ recruiterEvents' = recruiterEvents \cup
                  {[id |-> nextId, recruiterId |-> lv[p].recruiterId,
                    eventType |-> "provider_onboarded", providerId |-> lv[p].profileId]}
            /\ nextId' = nextId + 1
            /\ AnswerWith(p, [NoResponse EXCEPT !.status = 201, !.code = "OK",
                                                !.userId = lv[p].userId,
                                                !.profileId = lv[p].profileId,
                                                !.temporaryPassword =
                                                    lv[p].temporaryPassword])
    /\ lv' = [lv EXCEPT ![p].wrote.recruiterEvents =
                            @ \cup (recruiterEvents' \ recruiterEvents)]
    /\ UNCHANGED <<users, roles, userRoles, recruiters, recruiterInvitations,
                   providerProfiles, providerDocuments, categories>>
    /\ UNCHANGED <<now, jwtSecret, rq, nreq, acceptedTokens, acceptCount, mw, issued, objects, handedOut, bookings>>

-----------------------------------------------------------------------------
(* PATCH /api/offline/providers/:id  (hasRole(['recruiter','administrator'])) *)

UpdateOfflineProviderRequests ==
    {[NoRequest EXCEPT !.h = "updateOfflineProvider", !.user = u, !.id = f.id,
                       !.status = st, !.description = "bio"] :
        u \in Sessions, f \in providerProfiles, st \in {Undefined, "active"}}

UpdateOfflineProviderStart(p) ==
    \E r \in UpdateOfflineProviderRequests :
        /\ Arrive(p, r, MaxProfileRequests)
        /\ LET gate == hasRole(<<"recruiter", "administrator">>, r.user)
               found == ProfileById(r.id)
               provider == CHOOSE f \in found : TRUE
               isAdmin == includes(r.user.roles, "administrator")
               isRecruiter == includes(r.user.roles, "recruiter")
           IN  IF ~gate.next
               THEN /\ Answer(p, gate.status, gate.code)
                    /\ lv' = [lv EXCEPT ![p] = NoLocals]
               ELSE IF ~r.valid
               THEN /\ Answer(p, 400, "VALIDATION_ERROR")
                    /\ lv' = [lv EXCEPT ![p] = NoLocals]
               ELSE IF found = {}
               THEN /\ Answer(p, 404, "PROVIDER_NOT_FOUND")
                    /\ lv' = [lv EXCEPT ![p] = NoLocals]
               ELSE IF isRecruiter /\ provider.onboardedBy # NoId
               THEN /\ Goto(p, "uop_select_recruiter")
                    /\ lv' = [lv EXCEPT ![p] =
                                [NoLocals EXCEPT !.onboardedBy = provider.onboardedBy]]
               ELSE IF ~isAdmin /\ ~isRecruiter
               THEN /\ Answer(p, 403, "INSUFFICIENT_PERMISSIONS")
                    /\ lv' = [lv EXCEPT ![p] = NoLocals]
               ELSE /\ Goto(p, "uop_update")
                    /\ lv' = [lv EXCEPT ![p] = NoLocals]
        /\ UNCHANGED <<tables, now, nextId, jwtSecret, acceptedTokens, acceptCount, mw, issued, objects, handedOut, bookings>>

\* a recruiter may only update the providers they onboarded
UpdateOfflineProviderSelectRecruiter(p) ==
    /\ pc[p] = "uop_select_recruiter"
    /\ LET rows == {r \in recruiters : r.userId = rq[p].user.userId}
       IN  IF rows = {} \/ (CHOOSE r \in rows : TRUE).id # lv[p].onboardedBy
           THEN Answer(p, 403, "INSUFFICIENT_PERMISSIONS")
           ELSE Goto(p, "uop_update")
    /\ UNCHANGED <<tables, now, nextId, jwtSecret, rq, lv, nreq, acceptedTokens,
                   acceptCount, mw, issued, objects, handedOut, bookings>>

\* mutant: the supplied status is applied whoever asks
OfflineStatusUpdate_Anyone(user, status) == status

\* if (value.status && isAdmin) updatePayload.status = value.status
OfflineStatusUpdate(user, status) ==
    IF status # Undefined /\ includes(user.roles, "administrator")
    THEN status ELSE Undefined

UpdateOfflineProviderUpdate(p) ==
    /\ pc[p] = "uop_update"
    /\ providerProfiles' =
          updateProviderProfileRecord(rq[p].id,
              [NoUpdates EXCEPT
                  !.description = rq[p].description,
                  !.status = OfflineStatusUpdate(rq[p].user, rq[p].status)])
    /\ IF ProfileById(rq[p].id) = {} THEN Answer(p, 500, "PROVIDER_UPDATE_FAILED")
                                     ELSE Answer(p, 200, "OK")
    /\ UNCHANGED <<users, roles, userRoles, recruiters, recruiterInvitations,
                   recruiterEvents, providerDocuments, categories>>
    /\ UNCHANGED <<now, nextId, jwtSecret, rq, lv, nreq, acceptedTokens, acceptCount, mw, issued, objects, handedOut, bookings>>

-----------------------------------------------------------------------------
(* PATCH /api/offline/providers/:id/status  (hasRole(['administrator'])) *)

UpdateOfflineProviderStatusRequests ==
    {[NoRequest EXCEPT !.h = "updateOfflineProviderStatus", !.user = u, !.id = f.id,
                       !.status = st] :
        u \in Sessions, f \in providerProfiles, st \in {"active", "suspended"}}

UpdateOfflineProviderStatusStart(p) ==
    \E r \in UpdateOfflineProviderStatusRequests :
        /\ Arrive(p, r, MaxProfileRequests)
        /\ lv' = [lv EXCEPT ![p] = NoLocals]
        /\ LET gate == hasRole(<<"administrator">>, r.user)
           IN  IF ~gate.next THEN Answer(p, gate.status, gate.code)
               ELSE IF ~includes(r.user.roles, "administrator")
                    THEN Answer(p, 403, "INSUFFICIENT_PERMISSIONS")
               ELSE IF ~r.valid \/ r.status \notin ProfileStatuses
                    THEN Answer(p, 400, "VALIDATION_ERROR")
               ELSE IF ProfileById(r.id) = {} THEN Answer(p, 404, "PROVIDER_NOT_FOUND")
               ELSE Goto(p, "uos_update")
        /\ UNCHANGED <<tables, now, nextId, jwtSecret, acceptedTokens, acceptCount, mw, issued, objects, handedOut, bookings>>

UpdateOfflineProviderStatusUpdate(p) ==
    /\ pc[p] = "uos_update"
    /\ providerProfiles' =
          updateProviderProfileRecord(rq[p].id, [NoUpdates EXCEPT !.status = rq[p].status])
    /\ IF ProfileById(rq[p].id) = {}
       THEN Answer(p, 500, "PROVIDER_STATUS_UPDATE_FAILED")
       ELSE Answer(p, 200, "OK")
    /\ UNCHANGED <<users, roles, userRoles, recruiters, recruiterInvitations,
                   recruiterEvents, providerDocuments, categories>>
    /\ UNCHANGED <<now, nextId, jwtSecret, rq, lv, nreq, acceptedTokens, acceptCount, mw, issued, objects, handedOut, bookings>>

-----------------------------------------------------------------------------
(* POST /api/admin/init-sample-data  (development only, no authentication) *)

DefaultCategories == {"Builder", "Plumber"}
SampleAdminEmail == "admin@x.com"
SampleRecruiterEmail == "recruiter@x.com"
SampleProviderEmail == "mike@x.com"
SampleDocuments == <<"k2">>

SeedRequests == {[NoRequest EXCEPT !.h = "initializeSampleData", !.docs = SampleDocuments]}

\* insert the default categories, onConflictDoNothing on the unique name
InitializeSampleDataStart(p) ==
    \E r \in SeedRequests :
        /\ Arrive(p, r, MaxProfileRequests)
        /\ categories' = categories \cup DefaultCategories
        /\ lv' = [lv EXCEPT ![p] = NoLocals]
        /\ Goto(p, "seed_admin_user")
        /\ UNCHANGED <<users, roles, userRoles, recruiters, recruiterInvitations,
                       recruiterEvents, providerProfiles, providerDocuments>>
        /\ UNCHANGED <<now, nextId, jwtSecret, acceptedTokens, acceptCount, mw, issued, objects, handedOut, bookings>>

\* insert(users).onConflictDoNothing().returning(): a row comes back only when inserted;
\* then the role is ensured for the new user and the handler goes on at "after"
SeedInsertUser(p, email, role, after, skip) ==
    /\ IF UserByEmail(email) # {}
       THEN /\ Goto(p, skip)
            /\ lv' = [lv EXCEPT ![p].userId = NoId]
            /\ UNCHANGED <<users, nextId>>
       ELSE /\ users' = users \cup {[id |-> nextId, email |-> email]}
            /\ nextId' = nextId + 1
            /\ lv' = [lv EXCEPT ![p].userId = nextId, ![p].roleName = role,
                                ![p].erRet = "eu_select", ![p].euRet = after,
                                ![p].wrote.users = @ \cup (users' \ users)]
            /\ Goto(p, "er_select")
    /\ UNCHANGED <<roles, userRoles, recruiters, recruiterInvitations, recruiterEvents,
                   providerProfiles, providerDocuments, categories>>
    /\ UNCHANGED <<now, jwtSecret, rq, nreq, acceptedTokens, acceptCount, mw, issued, objects, handedOut, bookings>>

InitializeSampleDataAdmin(p) ==
    /\ pc[p] = "seed_admin_user"
    /\ SeedInsertUser(p, SampleAdminEmail, "administrator",
                      "seed_recruiter_user", "seed_recruiter_user")

InitializeSampleDataRecruiter(p) ==
    /\ pc[p] = "seed_recruiter_user"
    /\ SeedInsertUser(p, SampleRecruiterEmail, "recruiter",
                      "seed_recruiter_row", "seed_provider_user")

\* insert(recruiters).onConflictDoNothing(); sampleRecruiterId = recruiterProfile[0]?.id || null
InitializeSampleDataRecruiterRow(p) ==
    /\ pc[p] = "seed_recruiter_row"
    /\ IF lv[p].userId \notin UserIds
       THEN /\ Answer(p, 500, "INTERNAL_ERROR")
            /\ UNCHANGED <<recruiters, nextId, lv>>
       ELSE IF RecruiterIdsOfUser(lv[p].userId) # {}
       THEN /\ Goto(p, "seed_provider_user")
            /\ UNCHANGED <<recruiters, nextId, lv>>
       ELSE /\ recruiters' = recruiters \cup
                  {[id |-> nextId, userId |-> lv[p].userId, status |-> "active"]}
            /\ nextId' = nextId + 1
            /\ lv' = [lv EXCEPT ![p].recruiterId = nextId]
            /\ Goto(p, "seed_provider_user")
    /\ UNCHANGED <<users, roles, userRoles, recruiterInvitations, recruiterEvents,
                   providerProfiles, providerDocuments, categories>>
    /\ UNCHANGED <<now, jwtSecret, rq, nreq, acceptedTokens, acceptCount, mw, issued, objects, handedOut, bookings>>

\* the loop over the sample providers: nothing more is done for a user that existed
InitializeSampleDataProvider(p) ==
    /\ pc[p] = "seed_provider_user"
    /\ IF UserByEmail(SampleProviderEmail) # {}
       THEN /\ Answer(p, 201, "OK")
            /\ UNCHANGED <<users, nextId, lv>>
            /\ UNCHANGED <<roles, userRoles, recruiters, recruiterInvitations,
                           recruiterEvents, providerProfiles, providerDocuments, categories>>
            /\ UNCHANGED <<now, jwtSecret, rq, nreq, acceptedTokens, acceptCount, mw, issued, objects, handedOut, bookings>>
       ELSE SeedInsertUser(p, SampleProviderEmail, "provider", "seed_category", "done")

InitializeSampleDataCategory(p) ==
    /\ pc[p] = "seed_category"
    /\ categories' = ensureCategoryByName("Builder")
    /\ Goto(p, "seed_profile")
    /\ UNCHANGED <<users, roles, userRoles, recruiters, recruiterInvitations,
                   recruiterEvents, providerProfiles, providerDocuments>>
    /\ UNCHANGED <<now, nextId, jwtSecret, rq, lv, nreq, acceptedTokens, acceptCount, mw, issued, objects, handedOut, bookings>>

\* createProviderProfileRecord({ ..., status: 'active', onboardedBy: sampleRecruiterId,
\*                               onboardedAt: onboardedBy ? new Date() : null })
InitializeSampleDataProfile(p) ==
    /\ pc[p] = "seed_profile"
    /\ IF ProfileInsertRejected(lv[p].userId, lv[p].recruiterId)
       THEN /\ Answer(p, 500, "INTERNAL_ERROR")
            /\ UNCHANGED <<providerProfiles, nextId, lv>>
       ELSE /\ providerProfiles' = providerProfiles \cup
                  {NewProfile(nextId, lv[p].userId, "active", lv[p].recruiterId,
                              IF lv[p].recruiterId # NoId THEN now ELSE NoId)}
            /\ nextId' = nextId + 1
            /\ lv' = [lv EXCEPT ![p].profileId = nextId, ![p].insertedProfile = TRUE,
                                ![p].wrote.providerProfiles =
                                    @ \cup (providerProfiles' \ providerProfiles)]
            /\ Goto(p, "seed_docs")
    /\ UNCHANGED <<users, roles, userRoles, recruiters, recruiterInvitations,
                   recruiterEvents, providerDocuments, categories>>
    /\ UNCHANGED <<now, jwtSecret, rq, nreq, acceptedTokens, acceptCount, mw, issued, objects, handedOut, bookings>>

InitializeSampleDataDocs(p) ==
    /\ pc[p] = "seed_docs"
    /\ IF DocumentInsertRejected(lv[p].profileId, lv[p].recruiterId)
       THEN /\ Answer(p, 500, "INTERNAL_ERROR")
            /\ UNCHANGED <<providerDocuments, nextId>>
       ELSE /\ providerDocuments' =
                  insertProviderDocuments(rq[p].docs, lv[p].profileId, lv[p].recruiterId)
            /\ nextId' = nextId + Len(rq[p].docs)
            /\ IF lv[p].recruiterId # NoId THEN Goto(p, "seed_event")
                                          ELSE Answer(p, 201, "OK")
    /\ UNCHANGED <<users, roles, userRoles, recruiters, recruiterInvitations,
                   recruiterEvents, providerProfiles, categories>>
    /\ UNCHANGED <<now, jwtSecret, rq, lv, nreq, acceptedTokens, acceptCount, mw, issued, objects, handedOut, bookings>>

InitializeSampleDataEvent(p) ==
    /\ pc[p] = "seed_event"
    /\ IF lv[p].recruiterId \notin RecruiterIds
       THEN /\ Answer(p, 500, "INTERNAL_ERROR")
            /\ UNCHANGED <<recruiterEvents, nextId>>
       ELSE /\ recruiterEvents' = recruiterEvents \cup
                  {[id |-> nextId, recruiterId |-> lv[p].recruiterId,
                    eventType |-> "provider_onboarded", providerId |-> lv[p].profileId]}
            /\ nextId' = nextId + 1
            /\ Answer(p, 201, "OK")
    /\ UNCHANGED <<users, roles, userRoles, recruiters, recruiterInvitations,
                   providerProfiles, providerDocuments, categories>>
    /\ UNCHANGED <<now, jwtSecret, rq, lv, nreq, acceptedTokens, acceptCount, mw, issued, objects, handedOut, bookings>>

-----------------------------------------------------------------------------
(* Properties *)

RolesOfUser(uid) == {ur[2] : ur \in {x \in userRoles : x[1] = uid}}

\* C1: an invitation token moves its invitation from pending to accepted at most
\* once, and a registerRecruiter request that arrives after a registration with
\* that token was answered 201 ends at once with 400 INVALID_INVITE_TOKEN, having
\* created no user, role assignment, recruiter row or event.
C1_TokenAcceptedOnce ==
    /\ \A t \in DOMAIN acceptCount : acceptCount[t] <= 1
    /\ \A p \in Procs :
          (rq[p].h = "registerRecruiter" /\ lv[p].late) =>
              /\ pc[p] = "done"
              /\ resp[p].status = 400
              /\ resp[p].code = "INVALID_INVITE_TOKEN"
              /\ ~lv[p].createdUser
              /\ lv[p].userId = NoId
              /\ lv[p].recruiterId = NoId

\* a request carrying an already used token has been answered
C1_Witness ==
    \E p \in Procs :
        /\ rq[p].h = "registerRecruiter"
        /\ rq[p].token \in acceptedTokens
        /\ lv[p].late
        /\ pc[p] = "done"

TerminalStatuses == {"accepted", "revoked"}

\* C2: once an invitation is accepted or revoked, no step of a
\* revokeRecruiterInvitation or registerRecruiter request changes its status,
\* acceptedAt or revokedAt (only a new createRecruiterInvitation may reset the row).
C2_TerminalInvitations ==
    [][(\A p \in Procs : pc[p] = "ci_upsert" => pc'[p] = "ci_upsert") =>
          \A i \in recruiterInvitations :
              i.status \in TerminalStatuses =>
                  \E j \in recruiterInvitations' :
                      /\ j.id = i.id
                      /\ j.status = i.status
                      /\ j.acceptedAt = i.acceptedAt
                      /\ j.revokedAt = i.revokedAt]_vars

\* C4: of two register requests with the same e-mail (ignoring case) the one that
\* did not create the user is answered 409 USER_EXISTS, and no second row exists.
C4_SecondRegisterUserExists ==
    /\ \A u, v \in users : toLowerCase(u.email) = toLowerCase(v.email) => u = v
    /\ \A p \in Procs :
          (/\ pc[p] = "done"
           /\ rq[p].h = "register"
           /\ rq[p].valid
           /\ ~lv[p].dbError
           /\ ~lv[p].createdUser
           /\ UserByEmail(toLowerCase(rq[p].email)) # {}) =>
              (resp[p].status = 409 /\ resp[p].code = "USER_EXISTS")

\* C5: a register request answered 201 has created a user whose only role
\* assignment is customer, and its token embeds that user's id and [customer].
C5_RegisterCustomerOnly ==
    \A p \in Procs :
        (pc[p] = "done" /\ rq[p].h = "register" /\ resp[p].status = 201) =>
            /\ rq[p].valid
            /\ \E u \in users :
                  u.id = resp[p].userId /\ u.email = toLowerCase(rq[p].email)
            /\ RolesOfUser(resp[p].userId) = {"customer"}
            /\ resp[p].token.userId = resp[p].userId
            /\ resp[p].token.roles = <<"customer">>

C5_Witness ==
    \E p \in Procs :
        /\ pc[p] = "done" /\ rq[p].h = "register" /\ resp[p].status = 201
        /\ rq[p].email = "A@x.com"

\* C3: no two provider profiles share a userId, whichever handler inserted them, and a
\* createProviderProfile request of a user who already has a profile is answered
\* 409 PROFILE_EXISTS and inserts nothing
C3_OneProfilePerUser ==
    /\ \A f, g \in providerProfiles : f.userId = g.userId => f.id = g.id
    /\ \A p \in Procs :
          (/\ rq[p].h = "createProviderProfile" /\ lv[p].hadProfile
           /\ hasRole(<<"provider", "administrator">>, rq[p].user).next
           /\ rq[p].valid /\ rq[p].status = Undefined) =>
              /\ pc[p] = "done"
              /\ resp[p].status = 409 /\ resp[p].code = "PROFILE_EXISTS"
              /\ ~lv[p].insertedProfile /\ lv[p].profileId = NoId

C3_Witness ==
    \E p \in Procs :
        /\ rq[p].h = "createProviderProfile" /\ pc[p] = "done"
        /\ resp[p].code = "PROFILE_EXISTS"
        /\ Cardinality(ProfilesOfUser(rq[p].user.userId)) = 1

C7_OfflineProfileHasRole ==
    \A p \in Procs :
        rq[p].h = "createOfflineProvider" =>
            \A f \in lv[p].wrote.providerProfiles : <<f.userId, "provider">> \in userRoles

C7_Witness ==
    \E p \in Procs :
        /\ rq[p].h = "createOfflineProvider" /\ pc[p] = "done" /\ resp[p].status = 500
        /\ lv[p].wrote.providerProfiles # {} /\ lv[p].wrote.userRoles # {}

\* C8: a finished createProviderProfile request that was answered 201, or that inserted
\* its profile, leaves the requesting user with the provider role
C8_SelfServeEnsuresProviderRole ==
    \A p \in Procs :
        (/\ rq[p].h = "createProviderProfile" /\ pc[p] = "done"
         /\ (resp[p].status = 201 \/ lv[p].insertedProfile)) =>
            <<rq[p].user.userId, "provider">> \in userRoles

\* C9: the status of a profile changes only in a step of a request whose identity
\* includes administrator, and the self-serve handlers only ever store pending
C9_StatusChangesByAdministrator ==
    [][LET StepOf(hs) == \E p \in Procs : pc'[p] # pc[p] /\ rq'[p].h \in hs
           StepOfAdministrator ==
               \E p \in Procs : /\ pc'[p] # pc[p]
                                 /\ includes(rq'[p].user.roles, "administrator")
       IN  \A g \in providerProfiles' :
              /\ \A f \in providerProfiles :
                    (f.id = g.id /\ f.status # g.status) =>
                        /\ StepOfAdministrator
                        /\ ~StepOf({"createProviderProfile", "updateProviderProfile"})
              /\ (g.id \notin {f.id : f \in providerProfiles}
                  /\ StepOf({"createProviderProfile"})) => g.status = "pending"]_vars

C9_Witness ==
    \E p \in Procs :
        /\ rq[p].h = "updateOfflineProvider" /\ pc[p] = "done" /\ resp[p].status = 200
        /\ ~includes(rq[p].user.roles, "administrator")
        /\ rq[p].status = "active"
        /\ \E f \in ProfileById(rq[p].id) : f.status = "pending" /\ f.description = "bio"

\* the role set of an identity
Range(arr) == {arr[i] : i \in 1..Len(arr)}

\* what each middleware is meant to decide, on role sets
MwPredicate(m) ==
    IF m.kind = "hasRole" THEN Range(m.required) \cap Range(m.user.roles) # {}
    ELSE IF m.kind = "hasAllRoles" THEN Range(m.required) \subseteq Range(m.user.roles)
    ELSE IF m.kind = "isOwnerOrAdmin"
         THEN "administrator" \in Range(m.user.roles) \/ m.user.userId = m.paramUserId
    ELSE "administrator" \in Range(m.user.roles) \/ "provider" \in Range(m.user.roles)

\* C10: a role middleware calls next() exactly when the request carries an identity and
\* its predicate holds; without identity it answers 401 UNAUTHENTICATED, with a failed
\* predicate 403 INSUFFICIENT_PERMISSIONS, and then next() is not called
C10_RoleMiddlewares ==
    mw.ran =>
        /\ mw.nextCalled <=> (mw.user.auth /\ MwPredicate(mw))
        /\ mw.nextCalled => mw.status = 0
        /\ ~mw.user.auth =>
              mw.status = 401 /\ mw.code = "UNAUTHENTICATED" /\ ~mw.nextCalled
        /\ (mw.user.auth /\ ~MwPredicate(mw)) =>
              mw.status = 403 /\ mw.code = "INSUFFICIENT_PERMISSIONS" /\ ~mw.nextCalled

C10_Witness ==
    /\ mw.ran /\ mw.kind = "hasRole" /\ mw.nextCalled
    /\ Len(mw.required) = MaxRoleLen /\ mw.required[1] \notin Range(mw.user.roles)

NoMw == [user |-> NoUser, kind |-> NoStr, required |-> <<>>, paramUserId |-> NoId,
         status |-> 0, code |-> NoStr, nextCalled |-> FALSE, ran |-> FALSE]

InitRequests ==
    /\ pc = [p \in Procs |-> "idle"]
    /\ rq = [p \in Procs |-> NoRequest]
    /\ lv = [p \in Procs |-> NoLocals]
    /\ resp = [p \in Procs |-> NoResponse]
    /\ nreq = 0
    /\ acceptedTokens = {}
    /\ acceptCount = [t \in {} |-> 0]
    /\ mw = NoMw
    /\ issued = {}
    /\ objects = {}
    /\ handedOut = {}
    /\ bookings = {}

\* a fresh database (or one whose roles were seeded), the secret set or forgotten
InitRegister ==
    /\ users = {}
    /\ roles \in {{}, {"provider"}, {"customer", "provider", "administrator"}}
    /\ userRoles = {}
    /\ recruiters = {}
    /\ recruiterInvitations = {}
    /\ recruiterEvents = {}
    /\ providerProfiles = {}
    /\ providerDocuments = {}
    /\ categories = {}
    /\ now = Epoch
    /\ nextId = 1
    /\ jwtSecret \in BOOLEAN
    /\ InitRequests

NextRegister ==
    \E p \in Procs :
        \/ RegisterStart(p)
        \/ RegisterInsertUser(p)
        \/ RegisterSelectRole(p)
        \/ RegisterInsertRoles(p)
        \/ RegisterReselectRole(p)
        \/ RegisterAssignRole(p)
        \/ DbError(p)

SpecRegister == InitRegister /\ [][NextRegister]_vars


\* a database holding the roles and one administrator; no invitation sent yet
InitInvite ==
    /\ users = {[id |-> AdminId, email |-> "root@x.com"]}
    /\ roles \in {{"customer", "provider", "administrator"},
                  {"customer", "provider", "administrator", "recruiter"}}
    /\ userRoles = {<<AdminId, "administrator">>}
    /\ recruiters = {}
    /\ recruiterInvitations = {}
    /\ recruiterEvents = {}
    /\ providerProfiles = {}
    /\ providerDocuments = {}
    /\ categories = {}
    /\ now = Epoch
    /\ nextId = AdminId + 1
    /\ jwtSecret = TRUE
    /\ InitRequests

NextInvite ==
    \/ Tick
    \/ \E p \in Procs :
        \/ RegisterRecruiterStart(p)
        \/ RegisterRecruiterSelectUser(p)
        \/ RegisterRecruiterSelectRole(p)
        \/ RegisterRecruiterInsertRole(p)
        \/ RegisterRecruiterInsertUser(p)
        \/ RegisterRecruiterInsertUserRole(p)
        \/ RegisterRecruiterInsertRecruiter(p)
        \/ RegisterRecruiterInsertEvent(p)
        \/ RegisterRecruiterAccept(p)
        \/ CreateRecruiterInvitationStart(p)
        \/ CreateRecruiterInvitationUpsert(p)
        \/ RevokeRecruiterInvitationStart(p)
        \/ RevokeRecruiterInvitationUpdate(p)
        \/ DeleteUserStart(p)
        \/ DeleteUserDelete(p)
        \/ DbError(p)

SpecInvite == InitInvite /\ [][NextInvite]_vars

\* the development database after the first part of a seeding: an administrator and a
\* recruiter exist; the provider role row is there (with a provider user) or not yet
InitProfiles ==
    /\ users = {[id |-> AdminId, email |-> "root@x.com"],
                [id |-> RecruiterUserId, email |-> "rec@x.com"],
                [id |-> ProviderUserId, email |-> "pro@x.com"]}
    /\ \/ /\ roles = {"administrator", "recruiter", "provider"}
          /\ userRoles = {<<AdminId, "administrator">>, <<RecruiterUserId, "recruiter">>,
                          <<ProviderUserId, "provider">>}
       \/ /\ roles = {"administrator", "recruiter"}
          /\ userRoles = {<<AdminId, "administrator">>, <<RecruiterUserId, "recruiter">>}
    /\ recruiters = {[id |-> RecruiterRowId, userId |-> RecruiterUserId, status |-> "active"]}
    /\ recruiterInvitations = {}
    /\ recruiterEvents = {}
    /\ providerProfiles = {}
    /\ providerDocuments = {}
    /\ categories = {}
    /\ now = Epoch
    /\ nextId = FirstFreeId
    /\ jwtSecret = TRUE
    /\ InitRequests

NextProfiles ==
    \E p \in Procs :
        \/ CreateProviderProfileStart(p)
        \/ CreateProviderProfileInsert(p)
        \/ CreateProviderProfileSelectRole(p)
        \/ CreateProviderProfileSelectUserRole(p)
        \/ CreateProviderProfileInsertUserRole(p)
        \/ UpdateProviderProfileStart(p)
        \/ UpdateProviderProfileUpdate(p)
        \/ CreateOfflineProviderStart(p)
        \/ CreateOfflineProviderSelectUser(p)
        \/ CreateOfflineProviderInsertUser(p)
        \/ CreateOfflineProviderSelectProfile(p)
        \/ CreateOfflineProviderCategory(p)
        \/ CreateOfflineProviderInsertProfile(p)
        \/ CreateOfflineProviderInsertDocs(p)
        \/ CreateOfflineProviderInsertEvent(p)
        \/ UpdateOfflineProviderStart(p)
        \/ UpdateOfflineProviderSelectRecruiter(p)
        \/ UpdateOfflineProviderUpdate(p)
        \/ UpdateOfflineProviderStatusStart(p)
        \/ UpdateOfflineProviderStatusUpdate(p)
        \/ InitializeSampleDataStart(p)
        \/ InitializeSampleDataAdmin(p)
        \/ InitializeSampleDataRecruiter(p)
        \/ InitializeSampleDataRecruiterRow(p)
        \/ InitializeSampleDataProvider(p)
        \/ InitializeSampleDataCategory(p)
        \/ InitializeSampleDataProfile(p)
        \/ InitializeSampleDataDocs(p)
        \/ InitializeSampleDataEvent(p)
        \/ EnsureRoleSelect(p)
        \/ EnsureRoleInsert(p)
        \/ EnsureRoleReselect(p)
        \/ EnsureUserHasRoleSelect(p)
        \/ EnsureUserHasRoleInsert(p)
        \/ DbError(p)

SpecProfiles == InitProfiles /\ [][NextProfiles]_vars

-----------------------------------------------------------------------------
(* The role middlewares, each run once on a request *)

RoleArrays == UNION {[1..n -> RoleNames] : n \in 0..MaxRoleLen}

MwUsers == {NoUser} \cup {Identity(uid, rs) : uid \in {AdminId, RecruiterUserId},
                                              rs \in RoleArrays}

\* requiredRoles is bound when the route is declared, req.params.userId by the path
MwRequests ==
    {[NoMw EXCEPT !.kind = k, !.user = u, !.required = rr, !.paramUserId = t] :
        k \in {"hasRole", "hasAllRoles"}, u \in MwUsers, rr \in RoleArrays, t \in {NoId}}
    \cup
    {[NoMw EXCEPT !.kind = k, !.user = u, !.paramUserId = t] :
        k \in {"isOwnerOrAdmin", "isProviderOrAdmin"}, u \in MwUsers,
        t \in {NoId, AdminId, RecruiterUserId}}

\* res.status(..).json(..) and return, or next()
MwAnswer(outcome) ==
    /\ mw' = [mw EXCEPT !.status = outcome.status, !.code = outcome.code,
                        !.nextCalled = outcome.next, !.ran = TRUE]
    /\ UNCHANGED <<tables, now, nextId, jwtSecret, pc, rq, lv, resp, nreq,
                   acceptedTokens, acceptCount, issued, objects, handedOut, bookings>>

HasRoleRun ==
    /\ mw.kind = "hasRole" /\ ~mw.ran
    /\ MwAnswer(hasRole(mw.required, mw.user))

HasAllRolesRun ==
    /\ mw.kind = "hasAllRoles" /\ ~mw.ran
    /\ MwAnswer(hasAllRoles(mw.required, mw.user))

IsOwnerOrAdminRun ==
    /\ mw.kind = "isOwnerOrAdmin" /\ ~mw.ran
    /\ MwAnswer(isOwnerOrAdmin(mw.user, mw.paramUserId))

IsProviderOrAdminRun ==
    /\ mw.kind = "isProviderOrAdmin" /\ ~mw.ran
    /\ MwAnswer(isProviderOrAdmin(mw.user))

InitMw ==
    /\ users = {} /\ roles = {} /\ userRoles = {} /\ recruiters = {}
    /\ recruiterInvitations = {} /\ recruiterEvents = {} /\ providerProfiles = {}
    /\ providerDocuments = {} /\ categories = {}
    /\ now = Epoch /\ nextId = 1 /\ jwtSecret = TRUE
    /\ pc = [p \in Procs |-> "idle"]
    /\ rq = [p \in Procs |-> NoRequest]
    /\ lv = [p \in Procs |-> NoLocals]
    /\ resp = [p \in Procs |-> NoResponse]
    /\ nreq = 0 /\ acceptedTokens = {} /\ acceptCount = [t \in {} |-> 0]
    /\ issued = {} /\ objects = {} /\ handedOut = {} /\ bookings = {}
    /\ mw \in MwRequests

NextMw ==
    \/ HasRoleRun
    \/ HasAllRolesRun
    \/ IsOwnerOrAdminRun
    \/ IsProviderOrAdminRun

SpecMw == InitMw /\ [][NextMw]_vars


-----------------------------------------------------------------------------
(* Login, bearer tokens and the administrator's role management *)

\* the bound of the token scenario: requests started in one behaviour
MaxTokenRequests == 4

RECURSIVE SetToSeq(_)
SetToSeq(S) ==
    IF S = {} THEN <<>>
    ELSE LET x == CHOOSE y \in S : TRUE IN <<x>> \o SetToSeq(S \ {x})

\* mutant: the token carries the default role instead of the rows read
userRoleNames_Default(uid) == <<DefaultRole>>

\* login: user_roles left-joined with roles, mapped to the names, nulls dropped
userRoleNames(uid) == SetToSeq({ur[2] : ur \in {x \in userRoles : x[1] = uid /\ x[2] \in roles}})

LoginRequests ==
    {[NoRequest EXCEPT !.h = "login", !.email = e, !.passwordOk = k] :
        e \in Emails, k \in BOOLEAN}
    \cup {[NoRequest EXCEPT !.h = "login", !.valid = FALSE]}

\* login: loginSchema.validate
LoginStart(p) ==
    /\ \E r \in LoginRequests :
        /\ Arrive(p, r, MaxTokenRequests)
        /\ IF ~r.valid
           THEN Answer(p, 400, "VALIDATION_ERROR")
           ELSE Goto(p, "lg_user")
    /\ lv' = [lv EXCEPT ![p] = NoLocals]
    /\ UNCHANGED <<tables, now, nextId, jwtSecret, acceptedTokens, acceptCount, mw, issued, objects, handedOut, bookings>>

\* login: select the user by lower-cased email, then comparePassword
LoginSelectUser(p) ==
    /\ pc[p] = "lg_user"
    /\ LET found == UserByEmail(toLowerCase(rq[p].email)) IN
        IF found = {} \/ ~rq[p].passwordOk
        THEN /\ Answer(p, 401, "INVALID_CREDENTIALS")
             /\ UNCHANGED lv
        ELSE /\ Goto(p, "lg_roles")
             /\ lv' = [lv EXCEPT ![p].userId = (CHOOSE u \in found : TRUE).id]
    /\ UNCHANGED <<tables, now, nextId, jwtSecret, rq, nreq, acceptedTokens, acceptCount, mw, issued, objects, handedOut, bookings>>

\* login: select the user's roles, generateToken over them, answer 200 with the token
LoginSelectRoles(p) ==
    /\ pc[p] = "lg_roles"
    /\ IF ~jwtSecret
       THEN /\ Answer(p, 500, "INTERNAL_ERROR")
            /\ UNCHANGED issued
       ELSE LET token == generateToken(lv[p].userId, userRoleNames(lv[p].userId)) IN
            /\ AnswerWith(p, [status |-> 200, code |-> "OK", userId |-> lv[p].userId,
                              profileId |-> NoId, token |-> token,
                              temporaryPassword |-> FALSE])
            /\ issued' = issued \cup {token}
    /\ UNCHANGED <<tables, now, nextId, jwtSecret, rq, lv, nreq, acceptedTokens, acceptCount, mw,
                   objects, handedOut, bookings>>

\* authenticateToken: req.user is the verified payload of the bearer token, as issued
authenticateToken(bearer) ==
    IF bearer = NoToken THEN NoUser ELSE Identity(bearer.userId, bearer.roles)

\* the guards of the admin router: authenticateToken, then hasRole(['administrator'])
AdminGate(bearer) == hasRole(<<"administrator">>, authenticateToken(bearer))

RoleTargets == UserIds \cup {NoId}
RoleInputs == {"administrator", "ghost", NoStr}

AssignRoleRequests ==
    {[NoRequest EXCEPT !.h = "assignRoleToUser", !.bearer = t, !.id = i, !.roleName = r] :
        t \in issued \cup {NoToken}, i \in RoleTargets, r \in RoleInputs}

\* assignRoleToUser: the router's guards, then the two parameter checks
AssignRoleToUserStart(p) ==
    /\ \E r \in AssignRoleRequests :
        /\ Arrive(p, [r EXCEPT !.user = authenticateToken(r.bearer)], MaxTokenRequests)
        /\ LET gate == AdminGate(r.bearer) IN
            IF ~gate.next THEN Answer(p, gate.status, gate.code)
            ELSE IF r.id = NoId THEN Answer(p, 400, "MISSING_PARAMETER")
            ELSE IF r.roleName = NoStr THEN Answer(p, 400, "VALIDATION_ERROR")
            ELSE Goto(p, "ar_user")
    /\ lv' = [lv EXCEPT ![p] = NoLocals]
    /\ UNCHANGED <<tables, now, nextId, jwtSecret, acceptedTokens, acceptCount, mw, issued, objects, handedOut, bookings>>

\* assignRoleToUser: select the user
AssignRoleToUserSelectUser(p) ==
    /\ pc[p] = "ar_user"
    /\ IF rq[p].id \notin UserIds
       THEN Answer(p, 404, "USER_NOT_FOUND")
       ELSE Goto(p, "ar_role")
    /\ UNCHANGED <<tables, now, nextId, jwtSecret, rq, lv, nreq, acceptedTokens, acceptCount, mw, issued, objects, handedOut, bookings>>

\* assignRoleToUser: select the role by name
AssignRoleToUserSelectRole(p) ==
    /\ pc[p] = "ar_role"
    /\ IF rq[p].roleName \notin roles
       THEN Answer(p, 404, "ROLE_NOT_FOUND")
       ELSE Goto(p, "ar_existing")
    /\ UNCHANGED <<tables, now, nextId, jwtSecret, rq, lv, nreq, acceptedTokens, acceptCount, mw, issued, objects, handedOut, bookings>>

\* assignRoleToUser: select the user's assignment of that role
AssignRoleToUserSelectExisting(p) ==
    /\ pc[p] = "ar_existing"
    /\ IF <<rq[p].id, rq[p].roleName>> \in userRoles
       THEN Answer(p, 409, "ROLE_ALREADY_ASSIGNED")
       ELSE Goto(p, "ar_insert")
    /\ UNCHANGED <<tables, now, nextId, jwtSecret, rq, lv, nreq, acceptedTokens, acceptCount, mw, issued, objects, handedOut, bookings>>

\* assignRoleToUser: insert the assignment (primary key and foreign keys may reject it)
AssignRoleToUserInsert(p) ==
    /\ pc[p] = "ar_insert"
    /\ IF <<rq[p].id, rq[p].roleName>> \in userRoles \/ rq[p].id \notin UserIds
          \/ rq[p].roleName \notin roles
       THEN /\ Answer(p, 500, "INTERNAL_ERROR")
            /\ UNCHANGED userRoles
       ELSE /\ Answer(p, 200, "OK")
            /\ userRoles' = userRoles \cup {<<rq[p].id, rq[p].roleName>>}
    /\ UNCHANGED <<users, roles, recruiters, recruiterInvitations, recruiterEvents,
                   providerProfiles, providerDocuments, categories>>
    /\ UNCHANGED <<now, nextId, jwtSecret, rq, lv, nreq, acceptedTokens, acceptCount, mw, issued, objects, handedOut, bookings>>

RemoveRoleRequests ==
    {[NoRequest EXCEPT !.h = "removeRoleFromUser", !.bearer = t, !.id = i, !.roleName = r] :
        t \in issued \cup {NoToken}, i \in RoleTargets, r \in RoleInputs \ {NoStr}}

\* removeRoleFromUser: the router's guards, then the parameter checks
RemoveRoleFromUserStart(p) ==
    /\ \E r \in RemoveRoleRequests :
        /\ Arrive(p, [r EXCEPT !.user = authenticateToken(r.bearer)], MaxTokenRequests)
        /\ LET gate == AdminGate(r.bearer) IN
            IF ~gate.next THEN Answer(p, gate.status, gate.code)
            ELSE IF r.id = NoId \/ r.roleName = NoStr THEN Answer(p, 400, "MISSING_PARAMETER")
            ELSE Goto(p, "rr_user")
    /\ lv' = [lv EXCEPT ![p] = NoLocals]
    /\ UNCHANGED <<tables, now, nextId, jwtSecret, acceptedTokens, acceptCount, mw, issued, objects, handedOut, bookings>>

\* removeRoleFromUser: select the user
RemoveRoleFromUserSelectUser(p) ==
    /\ pc[p] = "rr_user"
    /\ IF rq[p].id \notin UserIds
       THEN Answer(p, 404, "USER_NOT_FOUND")
       ELSE Goto(p, "rr_role")
    /\ UNCHANGED <<tables, now, nextId, jwtSecret, rq, lv, nreq, acceptedTokens, acceptCount, mw, issued, objects, handedOut, bookings>>

\* removeRoleFromUser: select the role by name
RemoveRoleFromUserSelectRole(p) ==
    /\ pc[p] = "rr_role"
    /\ IF rq[p].roleName \notin roles
       THEN Answer(p, 404, "ROLE_NOT_FOUND")
       ELSE Goto(p, "rr_delete")
    /\ UNCHANGED <<tables, now, nextId, jwtSecret, rq, lv, nreq, acceptedTokens, acceptCount, mw, issued, objects, handedOut, bookings>>

\* removeRoleFromUser: delete the assignment, returning the deleted rows
RemoveRoleFromUserDelete(p) ==
    /\ pc[p] = "rr_delete"
    /\ LET deletedRoles == userRoles \cap {<<rq[p].id, rq[p].roleName>>} IN
        /\ userRoles' = userRoles \ deletedRoles
        /\ IF deletedRoles = {}
           THEN Answer(p, 404, "USER_ROLE_NOT_FOUND")
           ELSE Answer(p, 200, "OK")
    /\ UNCHANGED <<users, roles, recruiters, recruiterInvitations, recruiterEvents,
                   providerProfiles, providerDocuments, categories>>
    /\ UNCHANGED <<now, nextId, jwtSecret, rq, lv, nreq, acceptedTokens, acceptCount, mw, issued, objects, handedOut, bookings>>

\* an admin-router request: the handlers that sit behind hasRole(['administrator'])
AdminRouted(p) == rq[p].h \in {"assignRoleToUser", "removeRoleFromUser"}

\* the middleware let the request through to its handler
Admitted(p) == ~(resp[p].status \in {401, 403} /\ resp[p].code \in
                    {"UNAUTHENTICATED", "INSUFFICIENT_PERMISSIONS"})

\* C11: a token issued at login embeds exactly the role assignments the user has at
\* that moment, and a request carrying a token is admitted or refused by the role
\* set inside the token, whatever the user's role assignments have become since.
C11_TokenRoleSnapshot ==
    /\ [][\A t \in issued' \ issued : Range(t.roles) = RolesOfUser(t.userId)]_vars
    /\ [](\A p \in Procs :
            (AdminRouted(p) /\ pc[p] = "done") =>
                /\ rq[p].user = authenticateToken(rq[p].bearer)
                /\ Admitted(p) <=> "administrator" \in Range(rq[p].bearer.roles))

\* a request admitted as administrator on an earlier token after the role was removed,
\* and one refused on an earlier token after the role was assigned
C11_Witness ==
    \E p \in Procs :
        /\ AdminRouted(p) /\ pc[p] = "done"
        /\ rq[p].bearer \in issued
        /\ \/ /\ Admitted(p) /\ resp[p].status = 200
              /\ "administrator" \notin RolesOfUser(rq[p].bearer.userId)
           \/ /\ ~Admitted(p)
              /\ "administrator" \in RolesOfUser(rq[p].bearer.userId)

InitTokens ==
    /\ InitRequests
    /\ users = {[id |-> AdminId, email |-> "a@x.com"], [id |-> AdminId + 1, email |-> "b@x.com"]}
    /\ roles = {"administrator", "provider"}
    /\ userRoles = {<<AdminId, "administrator">>, <<AdminId + 1, "provider">>}
    /\ recruiters = {} /\ recruiterInvitations = {} /\ recruiterEvents = {}
    /\ providerProfiles = {} /\ providerDocuments = {} /\ categories = {}
    /\ now = Epoch /\ nextId = FirstFreeId
    /\ jwtSecret \in BOOLEAN

NextTokens ==
    \E p \in Procs :
        \/ LoginStart(p)
        \/ LoginSelectUser(p)
        \/ LoginSelectRoles(p)
        \/ AssignRoleToUserStart(p)
        \/ AssignRoleToUserSelectUser(p)
        \/ AssignRoleToUserSelectRole(p)
        \/ AssignRoleToUserSelectExisting(p)
        \/ AssignRoleToUserInsert(p)
        \/ RemoveRoleFromUserStart(p)
        \/ RemoveRoleFromUserSelectUser(p)
        \/ RemoveRoleFromUserSelectRole(p)
        \/ RemoveRoleFromUserDelete(p)
        \/ DbError(p)

SpecTokens == InitTokens /\ [][NextTokens]_vars

-----------------------------------------------------------------------------
(* Properties of the recruiter registration *)

\* the locals, position, input and answer of one request
RequestOf(p) == <<pc[p], rq[p], lv[p], resp[p]>>

\* this step is the arrival of a request of handler h at p
Arrived(p, h) ==
    /\ Idle(p)
    /\ nreq' = nreq + 1
    /\ rq'[p].h = h
    /\ RequestOf(p)' # RequestOf(p)

\* this step ends p's request of handler h
Ended(p, h) ==
    /\ rq'[p].h = h
    /\ pc'[p] = "done"
    /\ \/ Arrived(p, h)
       \/ pc[p] # "done" /\ ~Idle(p)

RejectedWith(p, s, code) == pc'[p] = "done" /\ resp'[p].status = s /\ resp'[p].code = code

InviteRejections ==
    {"INVALID_INVITE_TOKEN", "INVITE_EMAIL_MISMATCH", "INVITE_EXPIRED", "USER_EXISTS"}

\* the invitation lookup of a registration that brings a token, decided on the rows
\* of this moment
TokenCheck(p) ==
    LET r == rq'[p]
        named == {i \in recruiterInvitations : i.token = r.token /\ i.status = "pending"}
    IN  /\ named = {} => RejectedWith(p, 400, "INVALID_INVITE_TOKEN")
        /\ \A i \in named :
            /\ toLowerCase(i.email) # toLowerCase(r.email)
                  => RejectedWith(p, 400, "INVITE_EMAIL_MISMATCH")
            /\ (toLowerCase(i.email) = toLowerCase(r.email) /\ i.expiresAt < now)
                  => RejectedWith(p, 400, "INVITE_EXPIRED")

\* C12: registerRecruiter with a token that names no pending invitation answers 400
\* INVALID_INVITE_TOKEN, with a pending invitation for another email 400
\* INVITE_EMAIL_MISMATCH, with a pending invitation past its expiry 400
\* INVITE_EXPIRED, and when its lookup finds a user with the email 409 USER_EXISTS;
\* a request rejected in one of these ways has changed no user, role assignment,
\* recruiter, event or invitation.
C12_RegisterRecruiterRejections ==
    [][\A p \in Procs :
        /\ (Arrived(p, "registerRecruiter") /\ rq'[p].valid /\ rq'[p].token # NoId)
              => TokenCheck(p)
        /\ ( /\ \/ Arrived(p, "registerRecruiter") /\ rq'[p].valid /\ rq'[p].token = NoId
                \/ pc[p] = "rr_select_user" /\ pc'[p] # pc[p] /\ ~lv'[p].dbError
             /\ \E u \in users : u.email = toLowerCase(rq'[p].email) )
              => RejectedWith(p, 409, "USER_EXISTS")
        /\ (Ended(p, "registerRecruiter") /\ resp'[p].code \in InviteRejections)
              => /\ <<users, userRoles, recruiters, recruiterEvents, recruiterInvitations>>'
                    = <<users, userRoles, recruiters, recruiterEvents, recruiterInvitations>>
                 /\ ~lv'[p].createdUser
                 /\ lv'[p].userId = NoId /\ lv'[p].recruiterId = NoId
      ]_vars

\* one token answered INVITE_EXPIRED for its own email and INVITE_EMAIL_MISMATCH for another
C12_Witness ==
    /\ \A p \in Procs : rq[p].h = "registerRecruiter" /\ pc[p] = "done"
    /\ \E p, q \in Procs :
        /\ rq[p].token = rq[q].token
        /\ resp[p].code = "INVITE_EXPIRED"
        /\ resp[q].code = "INVITE_EMAIL_MISMATCH"

\* C13: a registerRecruiter request answered 201 has inserted exactly one user (with
\* the lower-cased email), one recruiter role assignment for that user, one recruiter
\* row for that user and one recruiter_registered event for that recruiter; the
\* recruiter's status is active when a token was supplied and pending when none was;
\* and when a token was supplied the invitation found for it is accepted at the
\* moment of the answer.
C13_RegisterRecruiterCreates ==
    /\ [](\A p \in Procs :
            (rq[p].h = "registerRecruiter" /\ pc[p] = "done" /\ resp[p].status = 201) =>
                LET w == lv[p].wrote IN
                \E u \in w.users : \E r \in w.recruiters : \E e \in w.recruiterEvents :
                    /\ w.users = {u} /\ u.email = toLowerCase(rq[p].email)
                    /\ resp[p].userId = u.id
                    /\ w.userRoles = {<<u.id, "recruiter">>}
                    /\ w.recruiters = {r} /\ r.userId = u.id
                    /\ r.status = (IF rq[p].token # NoId THEN "active" ELSE "pending")
                    /\ w.recruiterEvents = {e} /\ e.recruiterId = r.id
                    /\ e.eventType = "recruiter_registered")
    /\ [][\A p \in Procs :
            (Ended(p, "registerRecruiter") /\ resp'[p].status = 201 /\ rq'[p].token # NoId) =>
                \E i \in recruiterInvitations' :
                    /\ i.id = lv'[p].invitationId
                    /\ i.email = toLowerCase(rq'[p].email)
                    /\ i.status = "accepted"
      ]_vars

\* one registration with a token and one without were answered 201
C13_Witness ==
    \E p, q \in Procs :
        /\ rq[p].h = "registerRecruiter" /\ pc[p] = "done" /\ resp[p].status = 201
        /\ rq[p].token # NoId
        /\ rq[q].h = "registerRecruiter" /\ pc[q] = "done" /\ resp[q].status = 201
        /\ rq[q].token = NoId
        /\ \E r \in recruiters : r.status = "active"
        /\ \E r \in recruiters : r.status = "pending"

-----------------------------------------------------------------------------
(* Properties of the invitations *)

TokensInUse == {i.token : i \in recruiterInvitations}

\* C14: no two invitation rows share an email; a createRecruiterInvitation answered
\* 201 leaves the row of its email pending, with a token never generated before and
\* the expiry counted from now, in the place of the row that was there; a token that
\* was replaced is never held by a row again and registerRecruiter answers it with
\* 400 INVALID_INVITE_TOKEN; a createRecruiterInvitation whose lookup finds a user
\* with the email is answered 409 USER_EXISTS and changes no invitation.
C14_OneInvitationPerEmail ==
    /\ [](\A i, j \in recruiterInvitations : i.email = j.email => i = j)
    /\ [][\A p \in Procs :
            /\ (Ended(p, "createRecruiterInvitation") /\ resp'[p].status = 201) =>
                  \E i \in recruiterInvitations' :
                      /\ i.email = toLowerCase(rq'[p].email)
                      /\ i.status = "pending"
                      /\ i.token \notin handedOut
                      /\ i.expiresAt = now + rq'[p].id /\ i.expiresAt > now
                      /\ \A o \in recruiterInvitations :
                            o.email = i.email => o.id = i.id /\ o.token \notin TokensInUse'
            /\ (Arrived(p, "registerRecruiter") /\ rq'[p].valid /\ rq'[p].token # NoId
                    /\ rq'[p].token \notin TokensInUse)
                  => RejectedWith(p, 400, "INVALID_INVITE_TOKEN")
            /\ (Arrived(p, "createRecruiterInvitation") /\ rq'[p].valid
                    /\ \E u \in users : u.email = toLowerCase(rq'[p].email))
                  => RejectedWith(p, 409, "USER_EXISTS")
            /\ (Ended(p, "createRecruiterInvitation") /\ resp'[p].code = "USER_EXISTS")
                  => /\ recruiterInvitations' = recruiterInvitations
                     /\ Arrived(p, "createRecruiterInvitation")
      ]_vars
    /\ [][\A t \in handedOut : t \notin TokensInUse => t \notin TokensInUse']_vars

\* an invitation was issued again and its earlier token was then refused
C14_Witness ==
    \E p, q \in Procs :
        /\ rq[p].h = "createRecruiterInvitation" /\ pc[p] = "done" /\ resp[p].status = 201
        /\ rq[q].h = "registerRecruiter" /\ pc[q] = "done"
        /\ resp[q].code = "INVALID_INVITE_TOKEN"
        /\ rq[q].token \in handedOut \ (TokensInUse \cup acceptedTokens)
        /\ \E i \in recruiterInvitations :
              i.email = toLowerCase(rq[q].email) /\ i.status = "pending"

-----------------------------------------------------------------------------
(* Properties of the get-or-create helpers *)

\* the awaits of ensureRoleId and of getRecruiterRoleId
RoleGetOrCreateSteps == {"er_select", "er_insert", "er_reselect", "rr_select_role", "rr_insert_role"}

\* the role name a request at one of those awaits is getting or creating
RoleWanted(p) == IF pc[p] \in {"rr_select_role", "rr_insert_role"} THEN "recruiter"
                 ELSE lv[p].roleName

\* C15: under every interleaving, a get-or-create call for a role name (ensureRoleId,
\* getRecruiterRoleId) does not fail: each of its statements either continues the call
\* or returns to the caller with the role row present, the loser of an insert race
\* included (database outages aside).
C15_RoleGetOrCreate ==
    [][\A p \in Procs :
        (pc[p] \in RoleGetOrCreateSteps /\ pc'[p] # pc[p] /\ ~lv'[p].dbError) =>
            /\ pc'[p] # "done"
            /\ pc'[p] \notin RoleGetOrCreateSteps => RoleWanted(p) \in roles'
      ]_vars

-----------------------------------------------------------------------------
(* ensureCategoryByName, statement by statement, under concurrent callers *)

\* the bound of the category scenario: calls started in one behaviour
MaxCategoryCalls == 3

CategoryInputs == {"Plumber", "plumber", " plumber ", "   ", ""}

\* String.prototype.trim on the inputs of the model
trim(name) == IF name = " plumber " THEN "plumber" ELSE IF name = "   " THEN "" ELSE name

\* the value of a call that returns null
Null == "null"

EnsureCategoryCalls ==
    {[NoRequest EXCEPT !.h = "ensureCategoryByName", !.category = n] : n \in CategoryInputs}

\* return from the helper with the id (the row's name stands for its serial id)
ReturnCategory(p, id) ==
    /\ pc' = [pc EXCEPT ![p] = "done"]
    /\ lv' = [lv EXCEPT ![p].categoryId = id]

\* ensureCategoryByName: trim, blank input returns null
EnsureCategoryStart(p) ==
    /\ \E r \in EnsureCategoryCalls :
        /\ Arrive(p, r, MaxCategoryCalls)
        /\ IF trim(r.category) = ""
           THEN /\ pc' = [pc EXCEPT ![p] = "done"]
                /\ lv' = [lv EXCEPT ![p] = [NoLocals EXCEPT !.categoryId = Null]]
           ELSE /\ pc' = [pc EXCEPT ![p] = "ec_select"]
                /\ lv' = [lv EXCEPT ![p] = NoLocals]
    /\ UNCHANGED <<tables, now, nextId, jwtSecret, resp, acceptedTokens, acceptCount, mw,
                   issued, objects, handedOut, bookings>>

\* ensureCategoryByName: select where ilike(name, trimmed); the first row's id, if any
EnsureCategorySelect(p) ==
    /\ pc[p] = "ec_select"
    /\ LET existing == CategoryLike(trim(rq[p].category)) IN
        IF existing # {}
        THEN \E c \in existing : ReturnCategory(p, c)
        ELSE /\ pc' = [pc EXCEPT ![p] = "ec_insert"]
             /\ UNCHANGED lv
    /\ UNCHANGED <<tables, now, nextId, jwtSecret, rq, resp, nreq, acceptedTokens, acceptCount,
                   mw, issued, objects, handedOut, bookings>>

\* ensureCategoryByName: insert onConflictDoNothing returning; categories.name is
\* unique on the exact spelling
EnsureCategoryInsert(p) ==
    /\ pc[p] = "ec_insert"
    /\ LET trimmed == trim(rq[p].category) IN
        IF trimmed \in categories
        THEN /\ pc' = [pc EXCEPT ![p] = "ec_fallback"]
             /\ UNCHANGED <<categories, lv>>
        ELSE /\ categories' = categories \cup {trimmed}
             /\ ReturnCategory(p, trimmed)
    /\ UNCHANGED <<users, roles, userRoles, recruiters, recruiterInvitations, recruiterEvents,
                   providerProfiles, providerDocuments>>
    /\ UNCHANGED <<now, nextId, jwtSecret, rq, resp, nreq, acceptedTokens, acceptCount,
                   mw, issued, objects, handedOut, bookings>>

\* ensureCategoryByName: the fallback select, fallback[0]?.id ?? null
EnsureCategoryFallback(p) ==
    /\ pc[p] = "ec_fallback"
    /\ LET fallback == CategoryLike(trim(rq[p].category)) IN
        IF fallback # {}
        THEN \E c \in fallback : ReturnCategory(p, c)
        ELSE ReturnCategory(p, Null)
    /\ UNCHANGED <<tables, now, nextId, jwtSecret, rq, resp, nreq, acceptedTokens, acceptCount,
                   mw, issued, objects, handedOut, bookings>>

InitCategories ==
    /\ InitRequests
    /\ users = {} /\ roles = {} /\ userRoles = {} /\ recruiters = {}
    /\ recruiterInvitations = {} /\ recruiterEvents = {} /\ providerProfiles = {}
    /\ providerDocuments = {}
    /\ categories \in {{}, {"Builder"}, {"Plumber"}}
    /\ now = Epoch /\ nextId = FirstFreeId /\ jwtSecret = TRUE

NextCategories ==
    \E p \in Procs :
        \/ EnsureCategoryStart(p)
        \/ EnsureCategorySelect(p)
        \/ EnsureCategoryInsert(p)
        \/ EnsureCategoryFallback(p)

SpecCategories == InitCategories /\ [][NextCategories]_vars

CategoryCallDone(p) == rq[p].h = "ensureCategoryByName" /\ pc[p] = "done"

\* C16: two finished ensureCategoryByName calls whose names differ only in letter
\* case (and surrounding blanks) have returned the same non-null category id, the
\* table holds at most one row per case-insensitive name, and a blank name returns
\* null.
C16_CategoryIdempotent ==
    /\ \A c, d \in categories : lowerCategory(c) = lowerCategory(d) => c = d
    /\ \A p, q \in Procs :
        (CategoryCallDone(p) /\ CategoryCallDone(q)
            /\ trim(rq[p].category) # ""
            /\ lowerCategory(trim(rq[p].category)) = lowerCategory(trim(rq[q].category)))
        => lv[p].categoryId = lv[q].categoryId /\ lv[p].categoryId # Null
    /\ \A p \in Procs :
        (CategoryCallDone(p) /\ trim(rq[p].category) = "") => lv[p].categoryId = Null

-----------------------------------------------------------------------------
(* Provider documents: upload through the storage adapter, and delete *)

\* the bound of the document scenario: requests started in one behaviour
MaxDocumentRequests == 3

\* the two provider profiles of the document scenario, and a document attached
\* without a stored file
FirstProfileId == FirstFreeId
SecondProfileId == FirstProfileId + 1
AttachedDocumentId == SecondProfileId + 1
FirstDocumentFreeId == AttachedDocumentId + 1

\* storageService: the public URL of a key
urlOf(key) == <<"uploads", key>>

\* getProviderDocuments: the rows of one provider
getProviderDocuments(providerId) == {d \in providerDocuments : d.providerId = providerId}

DocumentActors == {AdminUser, RecruiterUser, ProviderUser}

UploadRequests ==
    {[NoRequest EXCEPT !.h = "uploadProviderDocument", !.user = u, !.id = i, !.file = f,
                       !.valid = v] :
        u \in DocumentActors, i \in {FirstProfileId, SecondProfileId, NoId},
        f \in BOOLEAN, v \in BOOLEAN}

\* uploadProviderDocument: the router's guard, the provider lookup, the file and the
\* body checks
UploadProviderDocumentStart(p) ==
    /\ \E r \in UploadRequests :
        /\ Arrive(p, r, MaxDocumentRequests)
        /\ LET gate == hasRole(<<"recruiter", "administrator">>, r.user) IN
            IF ~gate.next THEN Answer(p, gate.status, gate.code)
            ELSE IF ProfileById(r.id) = {} THEN Answer(p, 404, "PROVIDER_NOT_FOUND")
            ELSE IF ~r.file THEN Answer(p, 400, "FILE_REQUIRED")
            ELSE IF ~r.valid THEN Answer(p, 400, "VALIDATION_ERROR")
            ELSE Goto(p, "ud_save")
    /\ lv' = [lv EXCEPT ![p] = NoLocals]
    /\ UNCHANGED <<tables, now, nextId, jwtSecret, acceptedTokens, acceptCount, mw, issued,
                   objects, handedOut, bookings>>

\* uploadProviderDocument: storageService.saveFile writes the object under a fresh key
UploadProviderDocumentSave(p) ==
    /\ pc[p] = "ud_save"
    /\ objects' = objects \cup {nextId}
    /\ nextId' = nextId + 1
    /\ lv' = [lv EXCEPT ![p].storedKey = nextId]
    /\ IF includes(rq[p].user.roles, "recruiter")
       THEN Goto(p, "ud_recruiter")
       ELSE Goto(p, "ud_insert")
    /\ UNCHANGED <<tables, now, jwtSecret, rq, nreq, acceptedTokens, acceptCount, mw, issued,
                   handedOut, bookings>>

\* uploadProviderDocument: the recruiter row of a requester with the recruiter role
UploadProviderDocumentSelectRecruiter(p) ==
    /\ pc[p] = "ud_recruiter"
    /\ LET recruiterRow == {r \in recruiters : r.userId = rq[p].user.userId} IN
        lv' = [lv EXCEPT ![p].recruiterId =
                  IF recruiterRow = {} THEN NoId ELSE (CHOOSE r \in recruiterRow : TRUE).id]
    /\ Goto(p, "ud_insert")
    /\ UNCHANGED <<tables, now, nextId, jwtSecret, rq, nreq, acceptedTokens, acceptCount, mw,
                   issued, objects, handedOut, bookings>>

\* mutant: the row keeps no storage key
UploadedDocument_NoKey(id, providerId, key, uploadedBy) ==
    [id |-> id, providerId |-> providerId, storageKey |-> NoId, fileUrl |-> urlOf(key),
     uploadedBy |-> uploadedBy]

\* the row uploadProviderDocument hands to insertProviderDocuments
UploadedDocument(id, providerId, key, uploadedBy) ==
    [id |-> id, providerId |-> providerId, storageKey |-> key, fileUrl |-> urlOf(key),
     uploadedBy |-> uploadedBy]

\* uploadProviderDocument: insert the metadata row; answer 201 unless an event follows
UploadProviderDocumentInsert(p) ==
    /\ pc[p] = "ud_insert"
    /\ IF DocumentInsertRejected(rq[p].id, lv[p].recruiterId)
       THEN /\ Answer(p, 500, "INTERNAL_ERROR")
            /\ UNCHANGED <<providerDocuments, nextId, lv>>
       ELSE /\ providerDocuments' = providerDocuments \cup
                  {UploadedDocument(nextId, rq[p].id, lv[p].storedKey, lv[p].recruiterId)}
            /\ nextId' = nextId + 1
            /\ lv' = [lv EXCEPT ![p].wrote.providerDocuments =
                                    @ \cup (providerDocuments' \ providerDocuments)]
            /\ IF lv[p].recruiterId # NoId
               THEN Goto(p, "ud_event")
               ELSE Answer(p, 201, "OK")
    /\ UNCHANGED <<users, roles, userRoles, recruiters, recruiterInvitations,
                   recruiterEvents, providerProfiles, categories>>
    /\ UNCHANGED <<now, jwtSecret, rq, nreq, acceptedTokens, acceptCount, mw, issued, objects,
                   handedOut, bookings>>

\* uploadProviderDocument: log provider_document_uploaded and answer 201
UploadProviderDocumentInsertEvent(p) ==
    /\ pc[p] = "ud_event"
    /\ IF lv[p].recruiterId \notin RecruiterIds
       THEN /\ Answer(p, 500, "INTERNAL_ERROR")
            /\ UNCHANGED <<recruiterEvents, nextId>>
       ELSE /\ recruiterEvents' = recruiterEvents \cup
                  {[id |-> nextId, recruiterId |-> lv[p].recruiterId,
                    eventType |-> "provider_document_uploaded", providerId |-> rq[p].id]}
            /\ nextId' = nextId + 1
            /\ Answer(p, 201, "OK")
    /\ UNCHANGED <<users, roles, userRoles, recruiters, recruiterInvitations,
                   providerProfiles, providerDocuments, categories>>
    /\ UNCHANGED <<now, jwtSecret, rq, lv, nreq, acceptedTokens, acceptCount, mw, issued,
                   objects, handedOut, bookings>>

DocumentIds == {d.id : d \in providerDocuments}

DeleteDocumentRequests ==
    {[NoRequest EXCEPT !.h = "deleteProviderDocument", !.user = u, !.id = i,
                       !.documentId = d] :
        u \in DocumentActors, i \in {FirstProfileId, SecondProfileId},
        d \in DocumentIds \cup {NoId}}

\* mutant: the document is looked up by its id alone
ExistingDocument_AnyProvider(providerId, documentId) ==
    {d \in providerDocuments : d.id = documentId}

\* deleteProviderDocumentRecord: where id = documentId and providerId = providerId
ExistingDocument(providerId, documentId) ==
    {d \in providerDocuments : d.id = documentId /\ d.providerId = providerId}

\* deleteProviderDocument: the router's guard, then the select of
\* deleteProviderDocumentRecord
DeleteProviderDocumentStart(p) ==
    /\ \E r \in DeleteDocumentRequests :
        /\ Arrive(p, r, MaxDocumentRequests)
        /\ LET gate == hasRole(<<"recruiter", "administrator">>, r.user)
               existing == ExistingDocument(r.id, r.documentId)
           IN  IF ~gate.next
               THEN /\ Answer(p, gate.status, gate.code)
                    /\ lv' = [lv EXCEPT ![p] = NoLocals]
               ELSE IF existing = {}
               THEN /\ Answer(p, 404, "DOCUMENT_NOT_FOUND")
                    /\ lv' = [lv EXCEPT ![p] = NoLocals]
               ELSE /\ Goto(p, "dd_delete")
                    /\ lv' = [lv EXCEPT ![p] =
                                [NoLocals EXCEPT !.existingKey =
                                    (CHOOSE d \in existing : TRUE).storageKey]]
    /\ UNCHANGED <<tables, now, nextId, jwtSecret, acceptedTokens, acceptCount, mw, issued,
                   objects, handedOut, bookings>>

\* deleteProviderDocumentRecord: the delete; then the handler answers 200 when the row
\* had no storage key
DeleteProviderDocumentDelete(p) ==
    /\ pc[p] = "dd_delete"
    /\ providerDocuments' = providerDocuments \ ExistingDocument(rq[p].id, rq[p].documentId)
    /\ IF lv[p].existingKey # NoId
       THEN Goto(p, "dd_file")
       ELSE Answer(p, 200, "OK")
    /\ UNCHANGED <<users, roles, userRoles, recruiters, recruiterInvitations,
                   recruiterEvents, providerProfiles, categories>>
    /\ UNCHANGED <<now, nextId, jwtSecret, rq, lv, nreq, acceptedTokens, acceptCount, mw,
                   issued, objects, handedOut, bookings>>

\* storageService.deleteFile: the object goes (a missing one is not an error), then 200
DeleteProviderDocumentFile(p) ==
    /\ pc[p] = "dd_file"
    /\ objects' = objects \ {lv[p].existingKey}
    /\ Answer(p, 200, "OK")
    /\ UNCHANGED <<tables, now, nextId, jwtSecret, rq, lv, nreq, acceptedTokens, acceptCount,
                   mw, issued, handedOut, bookings>>

InitDocuments ==
    /\ InitRequests
    /\ users = {[id |-> AdminId, email |-> "root@x.com"],
                [id |-> RecruiterUserId, email |-> "rec@x.com"],
                [id |-> ProviderUserId, email |-> "pro@x.com"]}
    /\ roles = {"administrator", "recruiter", "provider"}
    /\ userRoles = {<<AdminId, "administrator">>, <<RecruiterUserId, "recruiter">>,
                    <<ProviderUserId, "provider">>}
    /\ recruiters = {[id |-> RecruiterRowId, userId |-> RecruiterUserId, status |-> "active"]}
    /\ recruiterInvitations = {} /\ recruiterEvents = {} /\ categories = {}
    /\ now = Epoch /\ nextId = FirstDocumentFreeId /\ jwtSecret = TRUE
    /\ providerProfiles =
          {NewProfile(FirstProfileId, ProviderUserId, "pending", RecruiterRowId, Epoch),
           NewProfile(SecondProfileId, AdminId, "pending", RecruiterRowId, Epoch)}
    /\ providerDocuments =
          {UploadedDocument(AttachedDocumentId, SecondProfileId, NoId, NoId)}

NextDocuments ==
    \E p \in Procs :
        \/ UploadProviderDocumentStart(p)
        \/ UploadProviderDocumentSave(p)
        \/ UploadProviderDocumentSelectRecruiter(p)
        \/ UploadProviderDocumentInsert(p)
        \/ UploadProviderDocumentInsertEvent(p)
        \/ DeleteProviderDocumentStart(p)
        \/ DeleteProviderDocumentDelete(p)
        \/ DeleteProviderDocumentFile(p)
        \/ DbError(p)

SpecDocuments == InitDocuments /\ [][NextDocuments]_vars

-----------------------------------------------------------------------------
(* Properties of the provider documents *)

\* the rows a delete request for (providerId, documentId) may remove
Addressed(p) == {d \in providerDocuments : d.id = rq'[p].documentId /\ d.providerId = rq'[p].id}

\* this step belongs to p's deleteProviderDocument request
DeleteStep(p) ==
    \/ Arrived(p, "deleteProviderDocument")
    \/ rq[p].h = "deleteProviderDocument" /\ ~Idle(p) /\ pc'[p] # pc[p]

PassesGuard(p) == someIncluded(<<"recruiter", "administrator">>, rq'[p].user.roles)

\* C17: once deleteProviderDocument has answered 200 for (providerId, documentId) the
\* document is not among getProviderDocuments(providerId); the request removes no
\* other row and changes none; a delete whose pair matches no row (a documentId of
\* another provider included) is answered 404 DOCUMENT_NOT_FOUND, removes no row and
\* no stored object.
C17_DeleteProviderDocument ==
    /\ [](\A p \in Procs :
            (rq[p].h = "deleteProviderDocument" /\ pc[p] = "done" /\ resp[p].status = 200)
                => rq[p].documentId \notin {d.id : d \in getProviderDocuments(rq[p].id)})
    /\ [][\A p \in Procs :
            /\ DeleteStep(p) =>
                  /\ providerDocuments' \subseteq providerDocuments
                  /\ providerDocuments \ providerDocuments' \subseteq Addressed(p)
            /\ (Arrived(p, "deleteProviderDocument") /\ PassesGuard(p) /\ Addressed(p) = {})
                  => /\ RejectedWith(p, 404, "DOCUMENT_NOT_FOUND")
                     /\ providerDocuments' = providerDocuments
                     /\ objects' = objects
      ]_vars

\* a stored document was deleted with 200 after a delete naming it under the other
\* provider was answered 404
C17_Witness ==
    \E p, q \in Procs :
        /\ rq[p].h = "deleteProviderDocument" /\ pc[p] = "done" /\ resp[p].status = 200
        /\ lv[p].existingKey # NoId
        /\ rq[q].h = "deleteProviderDocument" /\ pc[q] = "done"
        /\ resp[q].code = "DOCUMENT_NOT_FOUND"
        /\ rq[q].documentId = rq[p].documentId /\ rq[q].id # rq[p].id
        /\ providerDocuments # {}

\* C18: of a document with a storage key, a deleteProviderDocument answered 200 leaves
\* neither the row nor the stored object; and once a deleteProviderDocument request
\* that found the document has ended, with 200 or with an error, the row and the
\* object are both there or both gone.
C18_DeleteRemovesRowAndObject ==
    \A p \in Procs :
        (rq[p].h = "deleteProviderDocument" /\ pc[p] = "done" /\ lv[p].existingKey # NoId) =>
            LET rowLeft == rq[p].documentId \in DocumentIds
                objectLeft == lv[p].existingKey \in objects
            IN  /\ resp[p].status = 200 => ~rowLeft /\ ~objectLeft
                /\ rowLeft <=> objectLeft

\* this step belongs to p's uploadProviderDocument request
UploadStep(p) ==
    \/ Arrived(p, "uploadProviderDocument")
    \/ rq[p].h = "uploadProviderDocument" /\ ~Idle(p) /\ pc'[p] # pc[p]

RowsWithKey(key) == {d \in providerDocuments : d.storageKey = key}

\* C19: a step of uploadProviderDocument that inserts a document row does so after the
\* adapter has stored the object, and the row carries the key and the URL the adapter
\* returned; when the statements after the save fail before the row is inserted, the
\* request is answered 500, no object is deleted and the stored object has no row;
\* when the provider does not exist or no file is supplied the request ends at once
\* with 404 or 400, with nothing stored and no row inserted.
C19_UploadStoresThenInserts ==
    [][\A p \in Procs :
        /\ UploadStep(p) =>
              /\ objects \subseteq objects'
              /\ \A d \in providerDocuments' \ providerDocuments :
                    /\ d.storageKey = lv[p].storedKey /\ d.storageKey \in objects
                    /\ d.fileUrl = urlOf(lv[p].storedKey)
                    /\ d.providerId = rq[p].id
        /\ (UploadStep(p) /\ pc[p] \in {"ud_recruiter", "ud_insert"} /\ pc'[p] = "done"
                /\ providerDocuments' = providerDocuments)
              => /\ resp'[p].status = 500
                 /\ objects' = objects /\ lv[p].storedKey \in objects'
                 /\ {d \in providerDocuments' : d.storageKey = lv[p].storedKey} = {}
        /\ (Arrived(p, "uploadProviderDocument") /\ PassesGuard(p)
                /\ (ProfileById(rq'[p].id) = {} \/ ~rq'[p].file))
              => /\ pc'[p] = "done"
                 /\ resp'[p].code = (IF ProfileById(rq'[p].id) = {}
                                     THEN "PROVIDER_NOT_FOUND" ELSE "FILE_REQUIRED")
                 /\ objects' = objects /\ providerDocuments' = providerDocuments
      ]_vars

\* one upload was answered 201 with its row and object, another ended with 500 and
\* left its object without a row
C19_Witness ==
    \E p, q \in Procs :
        /\ rq[p].h = "uploadProviderDocument" /\ pc[p] = "done" /\ resp[p].status = 201
        /\ RowsWithKey(lv[p].storedKey) # {} /\ lv[p].storedKey \in objects
        /\ rq[q].h = "uploadProviderDocument" /\ pc[q] = "done" /\ resp[q].status = 500
        /\ lv[q].storedKey \in objects /\ RowsWithKey(lv[q].storedKey) = {}

-----------------------------------------------------------------------------
(* Properties of the offline onboarding's recruiter resolution *)

OwnRecruiterRows(user) == {r \in recruiters : r.userId = user.userId}

-----------------------------------------------------------------------------
(* createOfflineProvider: the temporary password in the response *)

OnboardingDone(p) == rq[p].h = "createOfflineProvider" /\ pc[p] = "done"

\* the 201 response carries a password exactly when the request created the user
C21_PasswordOnCreated ==
    \A p \in Procs :
        (OnboardingDone(p) /\ resp[p].status = 201) =>
            (resp[p].temporaryPassword <=> lv[p].createdUser)

\* a request that found the user writes no users row
C21_ReusedUserUntouched ==
    \A p \in Procs :
        (OnboardingDone(p) /\ ~lv[p].createdUser) => lv[p].wrote.users = {}

\* 409 PROVIDER_EXISTS has written nothing
C21_ExistsWritesNothing ==
    \A p \in Procs :
        (OnboardingDone(p) /\ resp[p].code = "PROVIDER_EXISTS") =>
            /\ resp[p].status = 409
            /\ lv[p].wrote = NoWrites

\* C21: createOfflineProvider returns a temporary password exactly when the
\* request created the user, so every user created by onboarding has its
\* password delivered in the response of the creating request; a reused user is
\* left untouched and gets null; PROVIDER_EXISTS (409) creates nothing.
C21_TemporaryPasswordDelivered ==
    /\ \A p \in Procs :
          OnboardingDone(p) => (resp[p].temporaryPassword <=> lv[p].createdUser)
    /\ C21_ReusedUserUntouched
    /\ C21_ExistsWritesNothing

-----------------------------------------------------------------------------
(* recruiter_events as an append-only log *)

\* C22: the recruiter event log only grows: no step removes an event row or
\* changes its recruiterId, eventType or metadata, whatever requests run,
\* an administrator's deleteUser on the user of a recruiter included.
C22_EventLogOnlyGrows ==
    [][recruiterEvents \subseteq recruiterEvents']_vars

-----------------------------------------------------------------------------
(* updateProviderProfileRecord as a function of the table and its arguments *)

\* the bound of the patch scenario: calls made in one behaviour
MaxPatchCalls == 1

PriceInputs == {NoValue, NullValue, NumberValue(25), StringValue(<<"7">>)}

AvailabilityInputs ==
    {NoValue, NullValue, DateValue(Epoch + 1), StringValue(<<"1970-01-03">>),
     StringValue(<<"soon">>)}

PatchInputs ==
    {[description |-> d, status |-> st, pricePerHour |-> pr, nextAvailability |-> na] :
        d \in {Undefined, NoStr, "bio"}, st \in {Undefined, "active"},
        pr \in PriceInputs, na \in AvailabilityInputs}

PatchCalls ==
    {[NoRequest EXCEPT !.h = "updateProviderProfileRecord", !.id = i, !.updates = u] :
        i \in {FirstFreeId, FirstFreeId + 2}, u \in PatchInputs}

\* one call of updateProviderProfileRecord(id, updates): a single UPDATE statement
UpdateProviderProfileRecordCall(p) ==
    \E r \in PatchCalls :
        /\ Arrive(p, r, MaxPatchCalls)
        /\ providerProfiles' = updateProviderProfileRecord(r.id, r.updates)
        /\ pc' = [pc EXCEPT ![p] = "done"]
        /\ lv' = [lv EXCEPT ![p] = NoLocals]
        /\ UNCHANGED <<users, roles, userRoles, recruiters, recruiterInvitations,
                       recruiterEvents, providerDocuments, categories>>
        /\ UNCHANGED <<now, nextId, jwtSecret, resp, acceptedTokens, acceptCount, mw,
                       issued, objects, handedOut, bookings>>

\* two stored profiles, the first with or without a price, a date and a description
InitPatch ==
    /\ InitRequests
    /\ users = {[id |-> AdminId, email |-> "root@x.com"],
                [id |-> ProviderUserId, email |-> "pro@x.com"]}
    /\ roles = {"administrator", "provider"}
    /\ userRoles = {<<AdminId, "administrator">>, <<ProviderUserId, "provider">>}
    /\ recruiters = {} /\ recruiterInvitations = {} /\ recruiterEvents = {}
    /\ providerDocuments = {} /\ categories = {}
    /\ now = Epoch /\ nextId = FirstFreeId + 2 /\ jwtSecret = TRUE
    /\ \E d \in {NoStr, "old"}, pr \in {NullDecimal, <<"9">>}, na \in {NoId, Epoch} :
          providerProfiles =
              {[NewProfile(FirstFreeId, ProviderUserId, "pending", NoId, NoId)
                   EXCEPT !.description = d, !.pricePerHour = pr, !.nextAvailability = na],
               NewProfile(FirstFreeId + 1, AdminId, "pending", NoId, NoId)}

NextPatch ==
    \/ Tick
    \/ \E p \in Procs : UpdateProviderProfileRecordCall(p)

SpecPatch == InitPatch /\ [][NextPatch]_vars

\* the number a decimal string denotes
RECURSIVE decimalValue(_)
decimalValue(s) ==
    IF s = <<>> THEN 0
    ELSE 10 * decimalValue(SubSeq(s, 1, Len(s) - 1))
         + (CHOOSE d \in 0..9 : Digits[d + 1] = s[Len(s)])

\* the stored decimal column g holds the supplied value v
DecimalStored(v, g) ==
    /\ v.kind = "null" => g = NullDecimal
    /\ v.kind = "string" => g = v.str
    /\ v.kind = "number" =>
          /\ g # NullDecimal
          /\ decimalValue(g) = v.num
          /\ (Len(g) > 1 => g[1] # "0")

\* the row g is the row f patched with u at the instant t; strict: every supplied
\* date value is stored as a date
Patched(f, g, u, t, strict) ==
    /\ g.id = f.id /\ g.userId = f.userId
    /\ g.onboardedBy = f.onboardedBy /\ g.onboardedAt = f.onboardedAt
    /\ g.description = (IF u.description = Undefined THEN f.description ELSE u.description)
    /\ g.status = (IF u.status = Undefined THEN f.status ELSE u.status)
    /\ IF u.pricePerHour.kind = "undefined" THEN g.pricePerHour = f.pricePerHour
       ELSE DecimalStored(u.pricePerHour, g.pricePerHour)
    /\ LET v == u.nextAvailability IN
          /\ v.kind = "undefined" => g.nextAvailability = f.nextAvailability
          /\ v.kind = "null" => g.nextAvailability = NoId
          /\ v.kind = "date" => g.nextAvailability = v.num
          /\ v.kind = "string" =>
                IF v.str = <<"1970-01-03">> THEN g.nextAvailability = Epoch + 2
                ELSE IF strict THEN g.nextAvailability # NoId
                ELSE g.nextAvailability = NoId
    /\ g.updatedAt = t

PatchStep(strict) ==
    \A p \in Procs :
        Arrived(p, "updateProviderProfileRecord") =>
            /\ \A f \in providerProfiles :
                  IF f.id = rq'[p].id
                  THEN \E g \in providerProfiles' :
                          Patched(f, g, rq'[p].updates, now, strict)
                  ELSE f \in providerProfiles'
            /\ Cardinality(providerProfiles') = Cardinality(providerProfiles)

\* C23 as stated: updateProviderProfileRecord(id, updates) is a sparse patch: an
\* absent field keeps its value, a null is stored as null, a supplied value is
\* stored (numbers as their decimal string), updatedAt is stamped, and no other
\* row changes.
C23_SparsePatchAsStated ==
    [][PatchStep(TRUE)]_vars

\* C23 amended: as above, except that nextAvailability goes through toDateValue:
\* a supplied string that is not a date is stored as null.
C23_SparsePatch ==
    [][PatchStep(FALSE)]_vars

\* a call has patched the first profile with a price, a date string and no description
C23_Witness ==
    \E p \in Procs :
        /\ rq[p].h = "updateProviderProfileRecord" /\ pc[p] = "done"
        /\ rq[p].id = FirstFreeId
        /\ rq[p].updates.description = Undefined
        /\ rq[p].updates.pricePerHour = NumberValue(25)
        /\ rq[p].updates.nextAvailability = StringValue(<<"soon">>)
        /\ \E g \in providerProfiles :
              /\ g.id = FirstFreeId /\ g.pricePerHour = <<"2", "5">>
              /\ g.description = "old" /\ g.nextAvailability = NoId
              /\ g.updatedAt = now /\ now > Epoch

-----------------------------------------------------------------------------
(* PUT /api/profiles/:id: who may change a profile *)

\* C24: updateProviderProfile changes a profile only when the requester's user
\* id equals the profile's userId or the token's roles include administrator;
\* otherwise it is answered 403 INSUFFICIENT_PERMISSIONS and the profile is
\* unchanged; an unknown profile id is answered 404 PROFILE_NOT_FOUND and
\* nothing changes.
C24_UpdateOwnProfile ==
    [][\A p \in Procs :
          /\ (Arrived(p, "updateProviderProfile") /\ rq'[p].user.auth
                /\ rq'[p].valid /\ rq'[p].status = Undefined) =>
                LET r == rq'[p]
                    rows == ProfileById(r.id)
                IN  /\ rows = {} =>
                          RejectedWith(p, 404, "PROFILE_NOT_FOUND") /\ UNCHANGED tables
                    /\ \A f \in rows :
                          (f.userId # r.user.userId
                              /\ ~includes(r.user.roles, "administrator")) =>
                              /\ RejectedWith(p, 403, "INSUFFICIENT_PERMISSIONS")
                              /\ UNCHANGED tables
          /\ (rq[p].h = "updateProviderProfile" /\ pc[p] # pc'[p] /\ ~Idle(p)
                /\ providerProfiles' # providerProfiles) =>
                \A f \in providerProfiles :
                    f \notin providerProfiles' =>
                        /\ f.id = rq[p].id
                        /\ \/ f.userId = rq[p].user.userId
                           \/ includes(rq[p].user.roles, "administrator")
      ]_vars

\* the owner, who is no administrator, has edited the own profile
C24_Witness ==
    \E p \in Procs :
        /\ rq[p].h = "updateProviderProfile" /\ pc[p] = "done" /\ resp[p].status = 200
        /\ ~includes(rq[p].user.roles, "administrator")
        /\ \E f \in providerProfiles :
              f.id = rq[p].id /\ f.userId = rq[p].user.userId /\ f.description = "edited"

-----------------------------------------------------------------------------
(* PATCH /api/recruiters/me and PATCH /api/recruiters/:id/status *)

\* the bound of the recruiter-status scenario: requests started in one behaviour
MaxRecruiterRequests == 3

\* updateRecruiterSchema: status valid('active', 'away', 'offline', 'pending'), optional
updateRecruiterSchema == {Undefined, "active", "away", "offline", "pending"}

\* updateStatusSchema: status valid('active', 'away', 'offline', 'suspended'), required
updateStatusSchema == {"active", "away", "offline", "suspended"}

RecruiterStatusInputs == {Undefined, "active", "away", "pending", "suspended"}

UpdateCurrentRecruiterRequests ==
    {[NoRequest EXCEPT !.h = "updateCurrentRecruiterProfile", !.user = u, !.status = st] :
        u \in Sessions, st \in RecruiterStatusInputs}

\* hasRole(['recruiter','administrator']), validation, then the caller's recruiter row
UpdateCurrentRecruiterProfileStart(p) ==
    \E r \in UpdateCurrentRecruiterRequests :
        /\ Arrive(p, r, MaxRecruiterRequests)
        /\ LET gate == hasRole(<<"recruiter", "administrator">>, r.user)
               rows == {x \in recruiters : x.userId = r.user.userId}
           IN  IF ~gate.next
               THEN /\ Answer(p, gate.status, gate.code)
                    /\ lv' = [lv EXCEPT ![p] = NoLocals]
               ELSE IF r.status \notin updateRecruiterSchema
               THEN /\ Answer(p, 400, "VALIDATION_ERROR")
                    /\ lv' = [lv EXCEPT ![p] = NoLocals]
               ELSE IF rows = {}
               THEN /\ Answer(p, 404, "RECRUITER_NOT_FOUND")
                    /\ lv' = [lv EXCEPT ![p] = NoLocals]
               ELSE /\ Goto(p, "ucr_update")
                    /\ lv' = [lv EXCEPT ![p] =
                                [NoLocals EXCEPT !.recruiterId = (CHOOSE x \in rows : TRUE).id]]
        /\ UNCHANGED <<tables, now, nextId, jwtSecret, acceptedTokens, acceptCount, mw,
                       issued, objects, handedOut, bookings>>

\* update(recruiters).set({ ...value, updatedAt }).where(eq(recruiters.id, recruiter.id))
UpdateCurrentRecruiterProfileUpdate(p) ==
    /\ pc[p] = "ucr_update"
    /\ recruiters' =
          {IF x.id = lv[p].recruiterId /\ rq[p].status # Undefined
           THEN [x EXCEPT !.status = rq[p].status] ELSE x : x \in recruiters}
    /\ Goto(p, "ucr_insert_event")
    /\ UNCHANGED <<users, roles, userRoles, recruiterInvitations, recruiterEvents,
                   providerProfiles, providerDocuments, categories>>
    /\ UNCHANGED <<now, nextId, jwtSecret, rq, lv, nreq, acceptedTokens, acceptCount, mw,
                   issued, objects, handedOut, bookings>>

\* insert(recruiterEvents) 'profile_updated', then 200
UpdateCurrentRecruiterProfileInsertEvent(p) ==
    /\ pc[p] = "ucr_insert_event"
    /\ IF lv[p].recruiterId \notin RecruiterIds
       THEN /\ Answer(p, 500, "INTERNAL_ERROR")
            /\ UNCHANGED <<recruiterEvents, nextId>>
       ELSE /\ recruiterEvents' = recruiterEvents \cup
                  {[id |-> nextId, recruiterId |-> lv[p].recruiterId,
                    eventType |-> "profile_updated", providerId |-> NoId]}
            /\ nextId' = nextId + 1
            /\ Answer(p, 200, "OK")
    /\ UNCHANGED <<users, roles, userRoles, recruiters, recruiterInvitations,
                   providerProfiles, providerDocuments, categories>>
    /\ UNCHANGED <<now, jwtSecret, rq, lv, nreq, acceptedTokens, acceptCount, mw,
                   issued, objects, handedOut, bookings>>

UpdateRecruiterStatusRequests ==
    {[NoRequest EXCEPT !.h = "updateRecruiterStatus", !.user = u, !.id = i, !.status = st] :
        u \in Sessions, i \in RecruiterIds \cup {nextId}, st \in RecruiterStatusInputs}

\* hasRole(['administrator']), validation, then the recruiter row of :id
UpdateRecruiterStatusStart(p) ==
    \E r \in UpdateRecruiterStatusRequests :
        /\ Arrive(p, r, MaxRecruiterRequests)
        /\ lv' = [lv EXCEPT ![p] = [NoLocals EXCEPT !.recruiterId = r.id]]
        /\ LET gate == hasRole(<<"administrator">>, r.user)
           IN  IF ~gate.next THEN Answer(p, gate.status, gate.code)
               ELSE IF r.status \notin updateStatusSchema
               THEN Answer(p, 400, "VALIDATION_ERROR")
               ELSE IF r.id \notin RecruiterIds
               THEN Answer(p, 404, "RECRUITER_NOT_FOUND")
               ELSE Goto(p, "urs_update")
        /\ UNCHANGED <<tables, now, nextId, jwtSecret, acceptedTokens, acceptCount, mw,
                       issued, objects, handedOut, bookings>>

\* update(recruiters).set({ status, updatedAt }).where(eq(recruiters.id, id))
UpdateRecruiterStatusUpdate(p) ==
    /\ pc[p] = "urs_update"
    /\ recruiters' =
          {IF x.id = rq[p].id THEN [x EXCEPT !.status = rq[p].status] ELSE x :
              x \in recruiters}
    /\ Goto(p, "urs_insert_event")
    /\ UNCHANGED <<users, roles, userRoles, recruiterInvitations, recruiterEvents,
                   providerProfiles, providerDocuments, categories>>
    /\ UNCHANGED <<now, nextId, jwtSecret, rq, lv, nreq, acceptedTokens, acceptCount, mw,
                   issued, objects, handedOut, bookings>>

\* insert(recruiterEvents) 'status_updated', then 200
UpdateRecruiterStatusInsertEvent(p) ==
    /\ pc[p] = "urs_insert_event"
    /\ IF lv[p].recruiterId \notin RecruiterIds
       THEN /\ Answer(p, 500, "INTERNAL_ERROR")
            /\ UNCHANGED <<recruiterEvents, nextId>>
       ELSE /\ recruiterEvents' = recruiterEvents \cup
                  {[id |-> nextId, recruiterId |-> lv[p].recruiterId,
                    eventType |-> "status_updated", providerId |-> NoId]}
            /\ nextId' = nextId + 1
            /\ Answer(p, 200, "OK")
    /\ UNCHANGED <<users, roles, userRoles, recruiters, recruiterInvitations,
                   providerProfiles, providerDocuments, categories>>
    /\ UNCHANGED <<now, jwtSecret, rq, lv, nreq, acceptedTokens, acceptCount, mw,
                   issued, objects, handedOut, bookings>>

\* an administrator and a recruiter who registered without an invitation (pending),
\* was suspended, or is active
InitRecruiters ==
    /\ InitRequests
    /\ users = {[id |-> AdminId, email |-> "root@x.com"],
                [id |-> RecruiterUserId, email |-> "rec@x.com"]}
    /\ roles = {"administrator", "recruiter"}
    /\ userRoles = {<<AdminId, "administrator">>, <<RecruiterUserId, "recruiter">>}
    /\ \E st \in {"pending", "suspended", "active"} :
          recruiters = {[id |-> RecruiterRowId, userId |-> RecruiterUserId, status |-> st]}
    /\ recruiterInvitations = {} /\ recruiterEvents = {} /\ providerProfiles = {}
    /\ providerDocuments = {} /\ categories = {}
    /\ now = Epoch /\ nextId = FirstFreeId /\ jwtSecret = TRUE

NextRecruiters ==
    \E p \in Procs :
        \/ UpdateCurrentRecruiterProfileStart(p)
        \/ UpdateCurrentRecruiterProfileUpdate(p)
        \/ UpdateCurrentRecruiterProfileInsertEvent(p)
        \/ UpdateRecruiterStatusStart(p)
        \/ UpdateRecruiterStatusUpdate(p)
        \/ UpdateRecruiterStatusInsertEvent(p)
        \/ DbError(p)

SpecRecruiters == InitRecruiters /\ [][NextRecruiters]_vars

\* C25: a recruiter whose status is pending or suspended becomes active only
\* through an administrator's updateRecruiterStatus request; no request made
\* with the recruiter's own identity (updateCurrentRecruiterProfile, PATCH
\* /api/recruiters/me) moves the recruiter out of pending or suspended.
C25_ActivationByAdministrator ==
    [][\A x \in recruiters, y \in recruiters' :
          (x.id = y.id /\ x.status \in {"pending", "suspended"} /\ y.status # x.status) =>
              \E p \in Procs :
                  /\ rq[p].h = "updateRecruiterStatus"
                  /\ pc[p] = "urs_update" /\ pc'[p] # pc[p]
                  /\ includes(rq[p].user.roles, "administrator")
      ]_vars

-----------------------------------------------------------------------------
(* PATCH /api/offline/providers/:id: which providers a recruiter may change *)

\* C26: when the requester of updateOfflineProvider holds the recruiter role and
\* is not an administrator, the profile is changed only if its onboardedBy equals
\* the requester's own recruiter row id; in every other case the request is
\* answered 403 INSUFFICIENT_PERMISSIONS and the profile is unchanged. An
\* administrator can update any provider.
C26_RecruiterUpdatesOwnProviders ==
    [][\A p \in Procs :
          (rq[p].h = "updateOfflineProvider" /\ pc[p] = "uop_update" /\ pc'[p] # pc[p]
              /\ providerProfiles' # providerProfiles
              /\ includes(rq[p].user.roles, "recruiter")
              /\ ~includes(rq[p].user.roles, "administrator")) =>
              \A f \in providerProfiles :
                  f \notin providerProfiles' =>
                      /\ f.id = rq[p].id
                      /\ f.onboardedBy \in {r.id : r \in OwnRecruiterRows(rq[p].user)}
      ]_vars

-----------------------------------------------------------------------------
(* register: what a failed request leaves behind *)

RegisterFailed(p) ==
    rq[p].h = "register" /\ pc[p] = "done" /\ resp[p].status \in {400, 409, 500}

\* C27: a register request answered with an error status (400, 409 or 500)
\* leaves the users and role-assignment tables as they were: no user row and no
\* role assignment written by it remains, so that a retry is not blocked with
\* USER_EXISTS; this includes a failure to find or assign the customer role and
\* a failure to sign the token because the secret is unset.
C27_FailedRegisterLeavesNothing ==
    \A p \in Procs :
        RegisterFailed(p) =>
            /\ ~lv[p].createdUser
            /\ lv[p].userId \notin UserIds
            /\ \A ur \in userRoles : ur[1] # lv[p].userId

-----------------------------------------------------------------------------
(* POST /api/bookings, and DELETE /api/admin/users/:id on a populated database *)

\* table services (the name stands for the uuid); no handler of the scenario writes it
services == {"cleaning"}

CreateBookingRequests ==
    {[NoRequest EXCEPT !.h = "createBooking", !.user = u, !.id = i, !.serviceId = s,
                       !.valid = v] :
        u \in {RecruiterUser, ProviderUser}, i \in {ProviderUserId, AdminId},
        s \in services \cup {NoStr}, v \in BOOLEAN}

\* createBooking: authentication, validation, then the service lookup
CreateBookingStart(p) ==
    \E r \in CreateBookingRequests :
        /\ Arrive(p, r, MaxRequests)
        /\ lv' = [lv EXCEPT ![p] = NoLocals]
        /\ IF ~r.user.auth THEN Answer(p, 401, "UNAUTHENTICATED")
           ELSE IF ~r.valid THEN Answer(p, 400, "VALIDATION_ERROR")
           ELSE IF r.serviceId \notin services THEN Answer(p, 404, "SERVICE_NOT_FOUND")
           ELSE Goto(p, "cb_select_provider")
        /\ UNCHANGED <<tables, now, nextId, jwtSecret, acceptedTokens, acceptCount, mw,
                       issued, objects, handedOut, bookings>>

\* createBooking: the provider is looked up among the users
CreateBookingSelectProvider(p) ==
    /\ pc[p] = "cb_select_provider"
    /\ IF rq[p].id \notin UserIds THEN Answer(p, 404, "PROVIDER_NOT_FOUND")
                                  ELSE Goto(p, "cb_insert")
    /\ UNCHANGED <<tables, now, nextId, jwtSecret, rq, lv, nreq, acceptedTokens, acceptCount,
                   mw, issued, objects, handedOut, bookings>>

\* createBooking: insert(bookings); customer_id and provider_id reference users
CreateBookingInsert(p) ==
    /\ pc[p] = "cb_insert"
    /\ IF rq[p].user.userId \notin UserIds \/ rq[p].id \notin UserIds
       THEN /\ Answer(p, 500, "INTERNAL_ERROR")
            /\ UNCHANGED <<bookings, nextId>>
       ELSE /\ bookings' = bookings \cup
                  {[id |-> nextId, customerId |-> rq[p].user.userId,
                    providerId |-> rq[p].id]}
            /\ nextId' = nextId + 1
            /\ Answer(p, 201, "OK")
    /\ UNCHANGED <<tables, now, jwtSecret, rq, lv, nreq, acceptedTokens, acceptCount, mw,
                   issued, objects, handedOut>>

\* a database in use: the recruiter has onboarded the provider's and the
\* administrator's profiles and uploaded a document
InitDelete ==
    /\ InitRequests
    /\ users = {[id |-> AdminId, email |-> "root@x.com"],
                [id |-> RecruiterUserId, email |-> "rec@x.com"],
                [id |-> ProviderUserId, email |-> "pro@x.com"]}
    /\ roles = {"administrator", "recruiter", "provider"}
    /\ userRoles = {<<AdminId, "administrator">>, <<RecruiterUserId, "recruiter">>,
                    <<ProviderUserId, "provider">>}
    /\ recruiters = {[id |-> RecruiterRowId, userId |-> RecruiterUserId, status |-> "active"]}
    /\ recruiterInvitations = {} /\ categories = {}
    /\ now = Epoch /\ nextId = FirstDocumentFreeId + 1 /\ jwtSecret = TRUE
    /\ providerProfiles =
          {NewProfile(FirstProfileId, ProviderUserId, "pending", RecruiterRowId, Epoch),
           NewProfile(SecondProfileId, AdminId, "pending", RecruiterRowId, Epoch)}
    /\ providerDocuments =
          {UploadedDocument(AttachedDocumentId, FirstProfileId, NoId, RecruiterRowId)}
    /\ recruiterEvents =
          {[id |-> FirstDocumentFreeId, recruiterId |-> RecruiterRowId,
            eventType |-> "provider_onboarded", providerId |-> FirstProfileId]}

NextDelete ==
    \E p \in Procs :
        \/ DeleteUserStart(p)
        \/ DeleteUserDelete(p)
        \/ CreateBookingStart(p)
        \/ CreateBookingSelectProvider(p)
        \/ CreateBookingInsert(p)
        \/ UploadProviderDocumentStart(p)
        \/ UploadProviderDocumentSave(p)
        \/ UploadProviderDocumentSelectRecruiter(p)
        \/ UploadProviderDocumentInsert(p)
        \/ UploadProviderDocumentInsertEvent(p)
        \/ DbError(p)

SpecDelete == InitDelete /\ [][NextDelete]_vars

\* every reference points at a stored row
ReferencesHold ==
    /\ \A ur \in userRoles : ur[1] \in UserIds
    /\ \A f \in providerProfiles :
          f.userId \in UserIds /\ (f.onboardedBy = NoId \/ f.onboardedBy \in RecruiterIds)
    /\ \A r \in recruiters : r.userId \in UserIds
    /\ \A b \in bookings : b.customerId \in UserIds /\ b.providerId \in UserIds
    /\ \A d \in providerDocuments :
          /\ ProfileById(d.providerId) # {}
          /\ d.uploadedBy = NoId \/ d.uploadedBy \in RecruiterIds

\* what a step of deleteUser does
DeleteUserStep ==
    \A p \in Procs :
        /\ (Arrived(p, "deleteUser") /\ rq'[p].id = rq'[p].user.userId
              /\ rq'[p].id \in UserIds) =>
              /\ RejectedWith(p, 400, "CANNOT_DELETE_SELF")
              /\ UNCHANGED <<tables, bookings>>
        /\ (rq[p].h = "deleteUser" /\ ~Idle(p) /\ pc'[p] # pc[p] /\ users' # users) =>
              /\ rq[p].id # rq[p].user.userId
              /\ users' = {u \in users : u.id # rq[p].id}
              /\ \A ur \in userRoles' : ur[1] # rq[p].id
              /\ \A f \in providerProfiles' : f.userId # rq[p].id
              /\ \A r \in recruiters' : r.userId # rq[p].id
              /\ \A b \in bookings' : b.customerId # rq[p].id /\ b.providerId # rq[p].id
              /\ \A d \in providerDocuments' :
                    \A f \in providerProfiles : f.userId = rq[p].id => d.providerId # f.id

\* C28: deleteUser never deletes the account of the administrator issuing the
\* request (400 CANNOT_DELETE_SELF, state unchanged); deleting another user
\* removes that user's role assignments, profile with its documents, recruiter
\* row and bookings, so that in every reachable state each role assignment,
\* profile, recruiter and booking refers to an existing user and each
\* onboardedBy and uploadedBy is null or refers to an existing recruiter.
C28_DeleteUserKeepsReferences ==
    []ReferencesHold /\ [][DeleteUserStep]_vars

\* the recruiter's user was deleted: the profiles and the document the recruiter
\* had onboarded and uploaded are still there, with the reference set to null,
\* and a booking of the provider is stored
C28_Witness ==
    /\ \E p \in Procs : rq[p].h = "deleteUser" /\ pc[p] = "done" /\ resp[p].status = 200
                          /\ rq[p].id = RecruiterUserId
    /\ recruiters = {}
    /\ \E f \in providerProfiles : f.id = FirstProfileId /\ f.onboardedBy = NoId
    /\ \E d \in providerDocuments : d.id = AttachedDocumentId /\ d.uploadedBy = NoId
    /\ bookings # {}

-----------------------------------------------------------------------------
(* The three handlers that create users, side by side *)

\* an administrator on a database whose roles are seeded or not; no invitation
\* exists, so no registration carries a token
InitEmails ==
    /\ InitRequests
    /\ users = {[id |-> AdminId, email |-> "root@x.com"]}
    /\ roles = {"administrator"}
    /\ userRoles = {<<AdminId, "administrator">>}
    /\ recruiters = {} /\ recruiterInvitations = {} /\ recruiterEvents = {}
    /\ providerProfiles = {} /\ providerDocuments = {} /\ categories = {}
    /\ now = Epoch /\ nextId = AdminId + 1 /\ jwtSecret = TRUE

NextEmails ==
    \E p \in Procs :
        \/ RegisterStart(p)
        \/ RegisterInsertUser(p)
        \/ RegisterSelectRole(p)
        \/ RegisterInsertRoles(p)
        \/ RegisterReselectRole(p)
        \/ RegisterAssignRole(p)
        \/ RegisterRecruiterStart(p)
        \/ RegisterRecruiterSelectRole(p)
        \/ RegisterRecruiterInsertRole(p)
        \/ RegisterRecruiterInsertUser(p)
        \/ RegisterRecruiterInsertUserRole(p)
        \/ RegisterRecruiterInsertRecruiter(p)
        \/ RegisterRecruiterInsertEvent(p)
        \/ CreateOfflineProviderStart(p)
        \/ CreateOfflineProviderSelectUser(p)
        \/ CreateOfflineProviderInsertUser(p)
        \/ CreateOfflineProviderSelectProfile(p)
        \/ CreateOfflineProviderCategory(p)
        \/ CreateOfflineProviderInsertProfile(p)
        \/ CreateOfflineProviderInsertDocs(p)
        \/ CreateOfflineProviderInsertEvent(p)
        \/ EnsureRoleSelect(p)
        \/ EnsureRoleInsert(p)
        \/ EnsureRoleReselect(p)
        \/ EnsureUserHasRoleSelect(p)
        \/ EnsureUserHasRoleInsert(p)
        \/ DbError(p)

SpecEmails == InitEmails /\ [][NextEmails]_vars

\* the letters of an address, case folded (independent of the handlers' toLowerCase)
foldCase(e) == IF e \in {"a@x.com", "A@x.com"} THEN "a@x.com" ELSE e

UsersLike(e) == {u \in users : foldCase(u.email) = foldCase(e)}

EmailsDistinct ==
    \A u, v \in users : foldCase(u.email) = foldCase(v.email) => u = v

\* a request whose address matches a stored user's up to case is treated as that user
TreatedAsExisting ==
    \A p \in Procs :
        /\ (Arrived(p, "register") /\ rq'[p].valid /\ UsersLike(rq'[p].email) # {}) =>
              RejectedWith(p, 409, "USER_EXISTS") /\ UNCHANGED tables
        /\ (Arrived(p, "registerRecruiter") /\ rq'[p].valid /\ rq'[p].token = NoId
              /\ UsersLike(rq'[p].email) # {}) =>
              RejectedWith(p, 409, "USER_EXISTS") /\ UNCHANGED tables
        /\ (rq[p].h = "createOfflineProvider" /\ pc[p] = "cop_select_user"
              /\ pc'[p] # pc[p] /\ ~lv'[p].dbError /\ UsersLike(rq[p].email) # {}) =>
              /\ pc'[p] = "cop_select_profile"
              /\ lv'[p].userId \in {u.id : u \in UsersLike(rq[p].email)}
              /\ UNCHANGED tables

\* C29: in every reachable state no two user rows have e-mails that are equal
\* ignoring letter case: register, registerRecruiter and createOfflineProvider
\* store the lower-cased address and look an existing user up by it, so a
\* request whose address differs only in case from an existing user's is
\* treated as that user.
C29_EmailsUniqueIgnoringCase ==
    []EmailsDistinct /\ [][TreatedAsExisting]_vars

\* a recruiter registered as "A@x.com" is stored as "a@x.com"; an onboarding for
\* "A@x.com" found and reused that user
C29_Witness ==
    \E p \in Procs :
        /\ rq[p].h = "createOfflineProvider" /\ rq[p].email = "A@x.com"
        /\ ~lv[p].createdUser /\ lv[p].userId # NoId
        /\ [id |-> lv[p].userId, email |-> "a@x.com"] \in users
        /\ pc[p] = "done" /\ resp[p].status = 201

-----------------------------------------------------------------------------
(* Provider documents: attaching metadata the client supplies *)

\* attachDocumentsSchema: one document, with the optional storageKey absent or the key
\* of a stored object; one body that fails the schema, one provider id that names no
\* profile
AttachRequests ==
    {[NoRequest EXCEPT !.h = "attachProviderDocuments", !.user = u, !.id = i,
                       !.docs = <<k>>] :
        u \in DocumentActors, i \in {FirstProfileId, SecondProfileId},
        k \in {NoId} \cup objects}
    \cup {[NoRequest EXCEPT !.h = "attachProviderDocuments", !.user = AdminUser,
                            !.id = FirstProfileId, !.valid = FALSE],
          [NoRequest EXCEPT !.h = "attachProviderDocuments", !.user = AdminUser,
                            !.id = NoId, !.docs = <<NoId>>]}

\* attachProviderDocuments: the router's guard, the body check and the provider lookup
AttachProviderDocumentsStart(p) ==
    /\ \E r \in AttachRequests :
        /\ Arrive(p, r, MaxDocumentRequests)
        /\ LET gate == hasRole(<<"recruiter", "administrator">>, r.user) IN
            IF ~gate.next THEN Answer(p, gate.status, gate.code)
            ELSE IF ~r.valid THEN Answer(p, 400, "VALIDATION_ERROR")
            ELSE IF ProfileById(r.id) = {} THEN Answer(p, 404, "PROVIDER_NOT_FOUND")
            ELSE IF includes(r.user.roles, "recruiter") THEN Goto(p, "ad_recruiter")
            ELSE Goto(p, "ad_insert")
    /\ lv' = [lv EXCEPT ![p] = NoLocals]
    /\ UNCHANGED <<tables, now, nextId, jwtSecret, acceptedTokens, acceptCount, mw, issued,
                   objects, handedOut, bookings>>

\* attachProviderDocuments: the recruiter row of a requester with the recruiter role
AttachProviderDocumentsSelectRecruiter(p) ==
    /\ pc[p] = "ad_recruiter"
    /\ LET recruiterRow == {r \in recruiters : r.userId = rq[p].user.userId} IN
        lv' = [lv EXCEPT ![p].recruiterId =
                  IF recruiterRow = {} THEN NoId ELSE (CHOOSE r \in recruiterRow : TRUE).id]
    /\ Goto(p, "ad_insert")
    /\ UNCHANGED <<tables, now, nextId, jwtSecret, rq, nreq, acceptedTokens, acceptCount, mw,
                   issued, objects, handedOut, bookings>>

\* docsToInsert: storageKey: doc.storageKey ?? null, fileUrl as sent
docsToInsert(keys, providerId, uploadedBy) ==
    {UploadedDocument(nextId + i - 1, providerId, keys[i], uploadedBy) : i \in 1..Len(keys)}

\* attachProviderDocuments: insertProviderDocuments(docsToInsert), then 201
AttachProviderDocumentsInsert(p) ==
    /\ pc[p] = "ad_insert"
    /\ IF DocumentInsertRejected(rq[p].id, lv[p].recruiterId)
       THEN /\ Answer(p, 500, "INTERNAL_ERROR")
            /\ UNCHANGED <<providerDocuments, nextId, lv>>
       ELSE /\ providerDocuments' = providerDocuments \cup
                  docsToInsert(rq[p].docs, rq[p].id, lv[p].recruiterId)
            /\ nextId' = nextId + Len(rq[p].docs)
            /\ lv' = [lv EXCEPT ![p].wrote.providerDocuments =
                                    @ \cup (providerDocuments' \ providerDocuments)]
            /\ Answer(p, 201, "OK")
    /\ UNCHANGED <<users, roles, userRoles, recruiters, recruiterInvitations,
                   recruiterEvents, providerProfiles, categories>>
    /\ UNCHANGED <<now, jwtSecret, rq, nreq, acceptedTokens, acceptCount, mw, issued, objects,
                   handedOut, bookings>>

\* the provider profiles, the recruiter and the attached document of the document
\* scenario
InitAttach == InitDocuments

NextAttach ==
    \E p \in Procs :
        \/ UploadProviderDocumentStart(p)
        \/ UploadProviderDocumentSave(p)
        \/ UploadProviderDocumentSelectRecruiter(p)
        \/ UploadProviderDocumentInsert(p)
        \/ UploadProviderDocumentInsertEvent(p)
        \/ AttachProviderDocumentsStart(p)
        \/ AttachProviderDocumentsSelectRecruiter(p)
        \/ AttachProviderDocumentsInsert(p)
        \/ DeleteProviderDocumentStart(p)
        \/ DeleteProviderDocumentDelete(p)
        \/ DeleteProviderDocumentFile(p)

SpecAttach == InitAttach /\ [][NextAttach]_vars

\* C30: deleteProviderDocument removes from storage only the object of the document
\* being deleted: no step of a delete request removes a stored object whose key is
\* the storageKey of a document row that exists after the step.
C30_DeleteKeepsReferencedObjects ==
    [][\A p \in Procs :
        DeleteStep(p) =>
            \A k \in objects \ objects' :
                {d \in providerDocuments' : d.storageKey = k} = {}
      ]_vars

====
